---- MODULE Spec2Model ----
\* Model of the adaptive tabular ML pipeline (backend/app): the artifact
\* lifecycle upload -> train -> persist -> load -> predict, with the request
\* handlers of api/train.py and api/predict.py and the core of
\* core/ml_processor.py.
EXTENDS Integers, Sequences, FiniteSets, TLC

VARIABLES
    now,        \* the latest reading of datetime.now() by a training run, in ticks
    uploads,    \* upload directory: session id -> stored dataset
    pipeFile,   \* data/models/<id>.joblib: model id -> pickled pipeline
    metaFile,   \* data/models/<id>_metadata.joblib: model id -> pickled metadata
    tr,         \* training requests in flight, one per worker
    nruns,      \* number of training runs that reached _save_model
    resp,       \* the last response a handler returned
    batch,      \* a client's input_data for predict, row by row
    variant,    \* the same rows with other key orders and extra fields
    out,        \* what predict returned for batch and for variant
    preprocessing_steps,    \* enhanced_preprocessor.preprocessing_steps
    planOut,    \* what create_preprocessing_pipeline returned last
    target_series,  \* the target column a training run reads from its file
    detected,   \* the problem type the run resolved for it
    column,     \* the column analyze_column is given
    schema,     \* the ColumnSchema it returned
    dataset,    \* the DataFrame generate_comprehensive_profile reads from the file
    profile,    \* the profile it returned, or the exception it raised
    frame_counts,\* the counts of the frame given to assess_data_quality
    quality,    \* what assess_data_quality returned
    upload_dir, \* the names of the files in settings.UPLOAD_DIR
    upload_log, \* the upload requests answered so far, oldest first
    table,      \* the frame load_data returned, by the figures the analysis reads
    analysis,   \* the target recommendations answered
    llm_env,    \* whether OPENROUTER_API_KEY is set and how the API answers
    llm_out,    \* what the LLM service returned
    training,   \* the training call in progress: its position, split and fitted plan
    models_dir, \* the pipelines _save_model wrote, by training call
    selection,  \* the dataset characteristics, problem type and preferences given to recommend_models
    recommended, \* what recommend_models returned
    fitted,     \* the OutlierTransformer and the FrequencyEncoder of a plan, with their fitted parameters
    partition,  \* the held-out partition given to transform: its numeric and its categorical array
    transformed, \* what the transform calls returned, oldest first
    corr_frame, \* the numeric columns handed to calculate_correlations
    corr_result \* what calculate_correlations returned for them

vars == <<now, uploads, pipeFile, metaFile, tr, nruns, resp, batch, variant, out,
          preprocessing_steps, planOut, target_series, detected,
          column, schema,
          dataset, profile,
          frame_counts, quality,
          upload_dir, upload_log,
          table, analysis,
          llm_env, llm_out,
          training, models_dir,
          selection, recommended,
          fitted, partition, transformed,
          corr_frame, corr_result>>

trainVars == <<now, uploads, pipeFile, metaFile, tr, nruns, resp>>

predVars == <<batch, variant, out>>

planVars == <<preprocessing_steps, planOut>>

detectVars == <<target_series, detected>>

schemaVars == <<column, schema>>

profileVars == <<dataset, profile>>

qualityVars == <<frame_counts, quality>>

uploadVars == <<upload_dir, upload_log>>

analysisVars == <<table, analysis>>

llmVars == <<llm_env, llm_out>>

fitVars == <<training, models_dir>>

selectVars == <<selection, recommended>>

transformVars == <<fitted, partition, transformed>>

correlateVars == <<corr_frame, corr_result>>

\* The variables of the profiling and analysis operations
coreVars == <<detectVars, schemaVars, profileVars, qualityVars, uploadVars, analysisVars, llmVars, fitVars, selectVars, transformVars, correlateVars>>

\* ---------------------------------------------------------------- bounds
MaxClock == 2
TicksPerSecond == 2
MaxRuns == 2
MaxRows == 3
MaxSteps == 6
MaxNonNull == 225
MaxUnique == 12

\* Requests are served concurrently; two servers are enough to interleave
\* two training runs
Workers == {1, 2}

\* ---------------------------------------------------------- small helpers
Put(f, k, v) == [x \in DOMAIN f \cup {k} |-> IF x = k THEN v ELSE f[x]]

Take(s, n) == SubSeq(s, 1, IF Len(s) < n THEN Len(s) ELSE n)

Range(s) == {s[i] : i \in 1..Len(s)}

\* ------------------------------------------------------------ input sets
\* Session ids are uuid4 strings (file_handler.generate_session_id); a string
\* is a tuple of characters.  SessA1 and SessA2 differ only after the 8th
\* character.
SessA1 == <<"3", "f", "a", "8", "5", "f", "6", "4", "-", "1">>
SessA2 == <<"3", "f", "a", "8", "5", "f", "6", "4", "-", "2">>
SessNone == <<"0", "0", "0", "0", "0", "0", "0", "0", "-", "0">>

Sessions == {SessA1, SessA2}

\* A stored CSV file, as pd.read_csv returns it: the column names in file
\* order and what training reads of the target column y (dtype, distinct and
\* non-null counts, size of the least populated class).  DataBinary labels
\* its rows "no" / "yes"; DataContinuous has a float target.
DataBinary ==
    [name |-> "binary", columns |-> <<"f1", "f2", "y">>,
     y |-> [numeric |-> FALSE, nunique |-> 2, nonnull |-> 20, minclass |-> 8]]
DataContinuous ==
    [name |-> "continuous", columns |-> <<"f1", "f2", "y">>,
     y |-> [numeric |-> TRUE, nunique |-> 40, nonnull |-> 40, minclass |-> 1]]

\* The file each session uploads
DatasetOf(s) == IF s = SessA1 THEN DataBinary ELSE DataContinuous

TargetInputs == {"y", "label"}
ModelTypeInputs == {"auto", "regression", "clustering"}
AlgorithmInputs == {"random_forest", "svm"}
TestSizeInputs == {9, 10, 51}           \* percent

\* ------------------------------------------------------------- exceptions
\* A Python exception: its class and its message str(e).  A message is the
\* f-string's literal text with its interpolated model id and names kept
\* apart; wrap lists the prefixes added by the enclosing handlers.
NoId == [prefix |-> <<>>, ts |-> 0 - 1]

Msg(text, id, names) == [wrap |-> <<>>, text |-> text, id |-> id, names |-> names]

NoMsg == Msg("", NoId, {})

Raise(exc, msg) == [ok |-> FALSE, exc |-> exc, msg |-> msg]

Wrapped(prefix, msg) == [msg EXCEPT !.wrap = <<prefix>> \o @]

\* "not found" in str(e).lower()
NotFoundTexts ==
    {"Model {id} not found", "Model metadata for {id} not found",
     "Target column '{names}' not found in dataset"}

ContainsNotFound(msg) == msg.text \in NotFoundTexts

\* ------------------------------------------------------ MLProcessor (core)
\* self.model_configs: algorithm -> problem type -> estimator
ModelConfigs ==
    [random_forest |->
        [classification |-> "RandomForestClassifier", regression |-> "RandomForestRegressor"],
     logistic_regression |->
        [classification |-> "LogisticRegression", regression |-> "LinearRegression"],
     xgboost |->
        [classification |-> "XGBClassifier", regression |-> "XGBRegressor"]]

PrefixLen == 8

\* strftime("%Y%m%d_%H%M%S"): the clock reading cut to whole seconds
Timestamp(t) == t \div TicksPerSecond

\* f"model_{session_id[:8]}_{timestamp}"
generate_model_id(session_id, t) ==
    [prefix |-> Take(session_id, PrefixLen), ts |-> Timestamp(t)]

\* DataProcessor.infer_problem_type
\* infer_problem_type reading "less than 10 unique values" as the comment does
infer_problem_type_Below10(y) ==
    IF y.nonnull = 0 THEN "unknown"
    ELSE IF y.numeric
         THEN IF y.nunique < 10 \/ y.nunique * 100 < 5 * y.nonnull
              THEN "classification"
              ELSE "regression"
         ELSE "classification"

\* infer_problem_type without the test on the number of distinct values
infer_problem_type_RatioOnly(y) ==
    IF y.nonnull = 0 THEN "unknown"
    ELSE IF y.numeric
         THEN IF y.nunique * 100 < 5 * y.nonnull
              THEN "classification"
              ELSE "regression"
         ELSE "classification"

infer_problem_type(y) ==
    IF y.nonnull = 0 THEN "unknown"
    ELSE IF y.numeric
         THEN IF y.nunique <= 10 \/ y.nunique * 100 < 5 * y.nonnull
              THEN "classification"
              ELSE "regression"
         ELSE "classification"

\* MLProcessor.detect_problem_type, used when the caller hands in split data:
\* on a target without values nunique() / len() divides by zero and the
\* except branch answers "classification"
detect_problem_type(y) ==
    IF y.nonnull = 0 THEN "classification"
    ELSE IF y.numeric
         THEN IF y.nunique <= 10 \/ y.nunique * 100 < 5 * y.nonnull
              THEN "classification"
              ELSE "regression"
         ELSE "classification"

\* DataProcessor.prepare_features_and_target: X = df.drop(columns=[target])
FeatureColumns(df, target_column) ==
    LET Keep(c) == c # target_column IN SelectSeq(df.columns, Keep)

\* train_test_split(..., stratify=y) raises when a class has a single member
SplitRaises(df, problem_type) ==
    problem_type = "classification" /\ df.y.minclass < 2

\* pipeline.fit(X_train, y_train): a regressor cannot convert string labels
FitRaises(df, problem_type) == problem_type = "regression" /\ ~df.y.numeric

\* The body of MLProcessor.train_model's try block on the file-path branch,
\* up to the call of _save_model: either the exception it raises or the
\* (model_id, pipeline, metadata) it is about to save.
TrainBody(df, target_column, session_id, model_type, algorithm, test_size, t) ==
    IF target_column \notin Range(df.columns)
    THEN Raise("ValueError", Msg("Target column '{names}' not found in dataset",
                                 NoId, {target_column}))
    ELSE
    LET problem_type ==
            IF model_type = "auto" THEN infer_problem_type(df.y) ELSE model_type
        X == FeatureColumns(df, target_column)
    IN  IF SplitRaises(df, problem_type)
        THEN Raise("ValueError",
                   Msg("The least populated class in y has only 1 member", NoId, {}))
        ELSE IF problem_type \notin {"classification", "regression"}
        THEN Raise("ValueError", Msg("Invalid problem type: {names}", NoId, {problem_type}))
        ELSE IF algorithm \notin DOMAIN ModelConfigs
        THEN Raise("ValueError", Msg("Unsupported algorithm: {names}", NoId, {algorithm}))
        ELSE IF FitRaises(df, problem_type)
        THEN Raise("ValueError", Msg("could not convert string to float: 'no'", NoId, {}))
        ELSE [ok |-> TRUE,
              model_id |-> generate_model_id(session_id, t),
              pipeline |-> [estimator |-> ModelConfigs[algorithm][problem_type],
                            columns |-> X,
                            fitted_on |-> [data |-> df.name, test_size |-> test_size]],
              metadata |-> [session_id |-> session_id,
                            target_column |-> target_column,
                            problem_type |-> problem_type,
                            algorithm |-> algorithm,
                            feature_names |-> X,
                            timestamp |-> t]]

\* except Exception as e: raise ValueError(f"Model training failed: {str(e)}")
TrainModel(df, target_column, session_id, model_type, algorithm, test_size, t) ==
    LET r == TrainBody(df, target_column, session_id, model_type, algorithm, test_size, t)
    IN  IF r.ok THEN r
        ELSE Raise("ValueError", Wrapped("Model training failed: ", r.msg))

\* What a response or a worker holds when it has no pipeline or metadata
NoPipeline ==
    [estimator |-> "", columns |-> <<>>, fitted_on |-> [data |-> "", test_size |-> 0]]
NoMetadata ==
    [session_id |-> <<>>, target_column |-> "", problem_type |-> "",
     algorithm |-> "", feature_names |-> <<>>, timestamp |-> 0 - 1]

\* load_model without its metadata_path.exists() check
load_model_PipelineOnly(pipes, metas, model_id) ==
    IF model_id \notin DOMAIN pipes
    THEN Raise("ValueError", Msg("Model {id} not found", model_id, {}))
    ELSE [ok |-> TRUE, pipeline |-> pipes[model_id],
          metadata |-> IF model_id \in DOMAIN metas THEN metas[model_id] ELSE NoMetadata]

\* MLProcessor.load_model against the two files of the models directory
load_model(pipes, metas, model_id) ==
    IF model_id \notin DOMAIN pipes
    THEN Raise("ValueError", Msg("Model {id} not found", model_id, {}))
    ELSE IF model_id \notin DOMAIN metas
    THEN Raise("ValueError", Msg("Model metadata for {id} not found", model_id, {}))
    ELSE [ok |-> TRUE, pipeline |-> pipes[model_id], metadata |-> metas[model_id]]

\* ------------------------------------------------------------ prediction
\* An input row is a Python dict: its (key, value) pairs in insertion order.
NaN == 0 - 1

Keys(row) == {row[i][1] : i \in 1..Len(row)}

Cell(row, k) ==
    IF k \in Keys(row) THEN (CHOOSE kv \in Range(row) : kv[1] = k)[2] ELSE NaN

RECURSIVE AppendNew(_, _)
AppendNew(cols, ks) ==
    IF ks = <<>> THEN cols
    ELSE AppendNew(IF Head(ks) \in Range(cols) THEN cols ELSE Append(cols, Head(ks)),
                   Tail(ks))

RowKeys(row) == [i \in 1..Len(row) |-> row[i][1]]

\* pd.DataFrame(input_data).columns: the keys of all rows, in first-seen order
RECURSIVE DataFrameColumns(_)
DataFrameColumns(data) ==
    IF data = <<>> THEN <<>>
    ELSE LET rest == DataFrameColumns(SubSeq(data, 1, Len(data) - 1))
         IN  AppendNew(rest, RowKeys(data[Len(data)]))

\* df[columns]: one tuple of cells per row, in the order of columns; a key a
\* row does not have is NaN
SelectColumns(data, columns) ==
    [r \in 1..Len(data) |-> [c \in 1..Len(columns) |-> Cell(data[r], columns[c])]]

\* predict without df = df[expected_features]: the frame keeps its own columns
ExpectedFrame_OwnColumns(data, expected_features) ==
    SelectColumns(data, DataFrameColumns(data))

\* df = df[expected_features]
ExpectedFrame(data, expected_features) == SelectColumns(data, expected_features)

\* The fitted preprocessor: SimpleImputer(strategy='median') fills NaN with the
\* training median of the column
Median == <<1, 0>>
Impute(x) == [c \in 1..Len(x) |-> IF x[c] = NaN THEN Median[c] ELSE x[c]]

\* Probabilities and confidences are in hundredths
ConfScale == 100

\* The fitted estimators.  A regressor predicts a number (in tenths), a sum of
\* per-column step functions as a fitted tree ensemble computes; a classifier
\* gives the probability of the second class of classes_ = ("no", "yes") and
\* predicts a class, written as its index in classes_.
StepF1 == <<0, 1, 2>>
StepF2 == <<0, 180>>
RegressorPredict(x) == StepF1[x[1] + 1] + StepF2[x[2] + 1]

ProbaClass1(x) == 10 + 30 * x[1] + 20 * x[2]

PredictProba(x) == <<ConfScale - ProbaClass1(x), ProbaClass1(x)>>

\* np.argmax of the probability row: the first class on a tie
ClassifierPredict(x) == IF ProbaClass1(x) > ConfScale - ProbaClass1(x) THEN 1 ELSE 0

IsClassifier(pipeline) ==
    pipeline.estimator \in {ModelConfigs[a].classification : a \in DOMAIN ModelConfigs}

\* hasattr(pipeline.named_steps['model'], 'predict_proba')
HasPredictProba(pipeline) ==
    pipeline.estimator \in {"RandomForestClassifier", "LogisticRegression", "XGBClassifier"}

\* pipeline.predict(df): the pipeline reads the frame's columns by position
PipelinePredict(pipeline, frame) ==
    [r \in 1..Len(frame) |->
        IF IsClassifier(pipeline) THEN ClassifierPredict(Impute(frame[r]))
        ELSE RegressorPredict(Impute(frame[r]))]

PipelinePredictProba(pipeline, frame) ==
    [r \in 1..Len(frame) |-> PredictProba(Impute(frame[r]))]

\* np.std(predictions) > 0.  The predictions are floats: for n equal values x
\* the mean sum/n can round away from x and leave a positive deviation.  The
\* table lists the (n, x) of this model's predictions for which IEEE-754
\* double arithmetic does so (0.1 + 0.1 + 0.1 = 0.30000000000000004).
RECURSIVE SumSeq(_)
SumSeq(q) == IF q = <<>> THEN 0 ELSE Head(q) + SumSeq(Tail(q))

MeanRoundsOff ==
    {<<3, 1>>, <<3, 2>>, <<6, 1>>, <<6, 2>>, <<6, 181>>, <<7, 1>>, <<7, 2>>, <<7, 181>>}

PredictionScale == 10

\* n^2 times the variance of the predictions (in squared tenths)
SpreadN2(preds) ==
    Len(preds) * SumSeq([i \in 1..Len(preds) |-> preds[i] * preds[i]])
        - SumSeq(preds) * SumSeq(preds)

StdPositive(preds) ==
    \/ SpreadN2(preds) > 0
    \/ /\ preds # <<>>
       /\ <<Len(preds), preds[1]>> \in MeanRoundsOff

\* 1.0 / (1.0 + std_pred) in hundredths, rounded down: the largest c with
\* c * (1 + std) <= 100, found by bisection (lo satisfies it, hi + 1 does not)
ConfFits(c, v, unit) == c * c * v <= (ConfScale - c) * (ConfScale - c) * unit

RECURSIVE LargestFit(_, _, _, _)
LargestFit(lo, hi, v, unit) ==
    IF lo = hi THEN lo
    ELSE LET mid == (lo + hi + 1) \div 2
         IN  IF ConfFits(mid, v, unit) THEN LargestFit(mid, hi, v, unit)
             ELSE LargestFit(lo, mid - 1, v, unit)

NormalizedConf(preds) ==
    LET n == Len(preds)
    IN  LargestFit(0, ConfScale, SpreadN2(preds), n * n * PredictionScale * PredictionScale)

Max2(a, b) == IF a >= b THEN a ELSE b
Min2(a, b) == IF a <= b THEN a ELSE b

RECURSIVE MaxSeq(_)
MaxSeq(q) == IF Len(q) = 1 THEN q[1] ELSE Max2(Head(q), MaxSeq(Tail(q)))

MinConf == 10           \* 0.1
MaxConf == 90           \* 0.9
DefaultRegressionConf == 80     \* 0.8
NeutralConf == 50       \* 0.5

\* max(0.1, min(0.9, normalized_conf))
ClampConf(c) == Max2(MinConf, Min2(MaxConf, c))

\* MLProcessor._calculate_confidence_scores; <<>> is None
calculate_confidence_scores(pipeline, frame, problem_type) ==
    IF problem_type = "classification" /\ HasPredictProba(pipeline)
    THEN [r \in 1..Len(frame) |-> MaxSeq(PipelinePredictProba(pipeline, frame)[r])]
    ELSE IF problem_type = "regression"
    THEN LET predictions == PipelinePredict(pipeline, frame)
         IN  IF StdPositive(predictions)
             THEN [r \in 1..Len(frame) |-> ClampConf(NormalizedConf(predictions))]
             ELSE [r \in 1..Len(frame) |-> DefaultRegressionConf]
    ELSE <<>>

\* The features of the persisted list that the frame's columns do not hold
MissingFeatures(expected_features, columns) ==
    Range(expected_features) \ Range(columns)

\* The body of MLProcessor.predict's try block
PredictBody(pipes, metas, model_id, input_data) ==
    LET l == load_model(pipes, metas, model_id)
    IN  IF ~l.ok THEN l
        ELSE
        LET expected_features == l.metadata.feature_names
            missing == MissingFeatures(expected_features, DataFrameColumns(input_data))
        IN  IF missing # {}
            THEN Raise("ValueError", Msg("Missing required features: {names}", NoId, missing))
            ELSE
            LET df == ExpectedFrame(input_data, expected_features)
                predictions == PipelinePredict(l.pipeline, df)
                proba == IF HasPredictProba(l.pipeline)
                         THEN PipelinePredictProba(l.pipeline, df) ELSE <<>>
                conf == calculate_confidence_scores(l.pipeline, df,
                                                    l.metadata.problem_type)
            IN  [ok |-> TRUE,
                 predictions |->
                    [i \in 1..Len(predictions) |->
                        [prediction |-> predictions[i],
                         confidence |-> IF conf # <<>> THEN conf[i] ELSE NeutralConf,
                         probabilities |-> IF proba # <<>> THEN proba[i] ELSE <<>>]]]

\* except Exception as e: raise ValueError(f"Prediction failed: {str(e)}")
predict(pipes, metas, model_id, input_data) ==
    LET r == PredictBody(pipes, metas, model_id, input_data)
    IN  IF r.ok THEN r
        ELSE Raise("ValueError", Wrapped("Prediction failed: ", r.msg))

\* MLProcessor.get_model_summary
get_model_summary(pipes, metas, model_id) ==
    LET l == load_model(pipes, metas, model_id)
    IN  IF l.ok THEN [ok |-> TRUE, metadata |-> l.metadata]
        ELSE Raise("ValueError", Wrapped("Failed to get model summary: ", l.msg))

\* --------------------------------------------------- api/train.py handlers
MinTestSize == 10       \* request.test_size < 0.1, in percent
MaxTestSize == 50       \* request.test_size > 0.5, in percent

ApiAlgorithms == {"random_forest", "logistic_regression", "xgboost"}
ApiModelTypes == {"auto", "classification", "regression"}

\* An HTTP response: the route, the status code, the detail of an
\* HTTPException (error, message, model_id) or the fields of the 200 body.
Response(op, status, error, msg, model_id) ==
    [op |-> op, status |-> status, error |-> error, message |-> msg,
     model_id |-> model_id, test_size |-> 0, metadata |-> NoMetadata,
     predictions |-> <<>>, models |-> {}]

HttpError(op, status, error, msg) == Response(op, status, error, msg, NoId)

NoResponse == Response("", 0, "", NoMsg, NoId)

\* TrainResponse: the model id, and training_info with the request's test_size
TrainOk(model_id, test_size) ==
    [Response("train", 200, "", NoMsg, model_id) EXCEPT !.test_size = test_size]

\* except ValueError / except Exception of the POST /train/ handler
TrainErrorResponse(e) ==
    IF e.exc = "ValueError"
    THEN HttpError("train", 400, "TRAINING_VALIDATION_ERROR", e.msg)
    ELSE HttpError("train", 500, "TRAINING_ERROR", e.msg)

\* The POST /train/ handler without its test_size check
TrainHandler_NoSizeCheck(files, req, t) ==
    IF req.session_id \notin DOMAIN files
    THEN [ok |-> FALSE, resp |-> HttpError("train", 404, "SESSION_NOT_FOUND", NoMsg)]
    ELSE IF req.algorithm \notin ApiAlgorithms
    THEN [ok |-> FALSE, resp |-> HttpError("train", 400, "UNSUPPORTED_ALGORITHM", NoMsg)]
    ELSE IF req.model_type \notin ApiModelTypes
    THEN [ok |-> FALSE, resp |-> HttpError("train", 400, "INVALID_MODEL_TYPE", NoMsg)]
    ELSE LET r == TrainModel(files[req.session_id], req.target_column,
                             req.session_id, req.model_type, req.algorithm,
                             req.test_size, t)
         IN  IF r.ok THEN [ok |-> TRUE, result |-> r]
             ELSE [ok |-> FALSE, resp |-> TrainErrorResponse(r)]

\* POST /train/ up to the return of ml_processor.train_model's try body: the
\* error response, or the core's result when every check passed.
TrainHandler(files, req, t) ==
    IF req.session_id \notin DOMAIN files
    THEN [ok |-> FALSE, resp |-> HttpError("train", 404, "SESSION_NOT_FOUND", NoMsg)]
    ELSE IF req.test_size < MinTestSize \/ req.test_size > MaxTestSize
    THEN [ok |-> FALSE,
          resp |-> [HttpError("train", 400, "INVALID_TEST_SIZE", NoMsg)
                        EXCEPT !.test_size = req.test_size]]
    ELSE IF req.algorithm \notin ApiAlgorithms
    THEN [ok |-> FALSE, resp |-> HttpError("train", 400, "UNSUPPORTED_ALGORITHM", NoMsg)]
    ELSE IF req.model_type \notin ApiModelTypes
    THEN [ok |-> FALSE, resp |-> HttpError("train", 400, "INVALID_MODEL_TYPE", NoMsg)]
    ELSE LET r == TrainModel(files[req.session_id], req.target_column,
                             req.session_id, req.model_type, req.algorithm,
                             req.test_size, t)
         IN  IF r.ok THEN [ok |-> TRUE, result |-> r]
             ELSE [ok |-> FALSE, resp |-> TrainErrorResponse(r)]

TrainRequests ==
    [session_id : Sessions \cup {SessNone}, target_column : TargetInputs,
     model_type : ModelTypeInputs, algorithm : AlgorithmInputs,
     test_size : TestSizeInputs]

\* ------------------------------------------------- api/predict.py handlers
MaxBatchSize == 1000

\* POST /predict/
PredictHandler(pipes, metas, model_id, data) ==
    IF data = <<>>
    THEN Response("predict", 400, "EMPTY_INPUT_DATA", NoMsg, model_id)
    ELSE IF Len(data) > MaxBatchSize
    THEN HttpError("predict", 400, "BATCH_SIZE_TOO_LARGE", NoMsg)
    ELSE LET r == predict(pipes, metas, model_id, data)
         IN  IF r.ok
             THEN [Response("predict", 200, "", NoMsg, model_id)
                       EXCEPT !.predictions = r.predictions]
             ELSE IF ContainsNotFound(r.msg)
             THEN Response("predict", 404, "MODEL_NOT_FOUND",
                           Msg("Model {id} not found", model_id, {}), model_id)
             ELSE Response("predict", 400, "PREDICTION_VALIDATION_ERROR", r.msg, model_id)

\* GET /predict/model/{model_id}/info
InfoHandler(pipes, metas, model_id) ==
    LET l == load_model(pipes, metas, model_id)
    IN  IF l.ok
        THEN [Response("info", 200, "", NoMsg, model_id) EXCEPT !.metadata = l.metadata]
        ELSE Response("info", 404, "MODEL_NOT_FOUND",
                      Msg("Model {id} not found", model_id, {}), model_id)

\* GET /predict/models: one entry per <id>.joblib file of the models directory
ListHandler(pipes, metas) ==
    [Response("models", 200, "", NoMsg, NoId) EXCEPT !.models =
        {LET l == load_model(pipes, metas, id)
         IN  [model_id |-> id,
              status |-> IF l.ok THEN "available" ELSE "corrupted",
              error |-> IF l.ok THEN "" ELSE l.msg.text] : id \in DOMAIN pipes}]

\* MLProcessor.get_model_summary as GET /summary/{model_id} calls it first
SummaryHandler(pipes, metas, model_id) ==
    LET r == get_model_summary(pipes, metas, model_id)
    IN  IF r.ok
        THEN [Response("summary", 200, "", NoMsg, model_id) EXCEPT !.metadata = r.metadata]
        ELSE IF ContainsNotFound(r.msg)
        THEN Response("summary", 404, "MODEL_NOT_FOUND",
                      Msg("Model {id} not found", model_id, {}), model_id)
        ELSE Response("summary", 400, "SUMMARY_VALIDATION_ERROR", r.msg, model_id)

\* ------------------------------------------------------------ state machine
\* create_preprocessing_pipeline has not been called
NoPlan == [called |-> FALSE]

\* No predict call has been made for the batch
NoOut == [model_id |-> NoId, a |-> [ok |-> FALSE], b |-> [ok |-> FALSE]]

Idle == [pc |-> "idle", model_id |-> NoId, pipeline |-> NoPipeline,
         metadata |-> NoMetadata, test_size |-> 0]

NoSeries == [numeric |-> FALSE, nunique |-> 0, nonnull |-> 0, minclass |-> 0]
NoDetection == [called |-> FALSE]

NoColumn == [dtype |-> "object", cells |-> <<>>]
NoSchema == [called |-> FALSE]

NoFrame == <<>>
NoProfile == [called |-> FALSE]

DetectIdle ==
    /\ target_series = NoSeries
    /\ detected = NoDetection

SchemaIdle ==
    /\ column = NoColumn
    /\ schema = NoSchema

ProfileIdle ==
    /\ dataset = NoFrame
    /\ profile = NoProfile

NoCounts == [rows |-> 0, columns |-> <<>>, duplicate_rows |-> 0]
NoQuality == [called |-> FALSE]

QualityIdle ==
    /\ frame_counts = NoCounts
    /\ quality = NoQuality

UploadIdle ==
    /\ upload_dir = {}
    /\ upload_log = <<>>

NoTable == [rows |-> 0, columns |-> <<>>]
NoAnalysis == [called |-> FALSE]

AnalysisIdle ==
    /\ table = NoTable
    /\ analysis = NoAnalysis

NoLlmEnv == [api_key |-> FALSE, response |-> "none"]
NoLlmOut == [called |-> FALSE]

LlmIdle ==
    /\ llm_env = NoLlmEnv
    /\ llm_out = NoLlmOut

NoCorrelations == [called |-> FALSE]

CorrelateIdle ==
    /\ corr_frame = NoFrame
    /\ corr_result = NoCorrelations

\* ------------------------------------------- training calls, step by step
\* MLProcessor.train_model and MLProcessor.train_model_enhanced followed
\* statement by statement: which partition of which call every fit,
\* transform and predict is given, and what _save_model writes.
MaxTrainings == 2

\* A part of the frame a training call reads: X_train, X_test, or all of X
Part(call, part) == [call |-> call, part |-> part]

\* One method call on the preprocessing plan or on the estimator
Call(object, method, data) == [object |-> object, method |-> method, data |-> data]

\* A ColumnTransformer as create_preprocessing_pipeline returns it, not fitted
NewPreprocessor == [fits |-> <<>>]

\* preprocessor.fit(data): the fitted parameters are those of the last fit
Fit(preprocessor, data) == [fits |-> Append(preprocessor.fits, data)]

NoTraining ==
    [pc |-> "idle", call |-> 0, entry |-> "", df |-> "", problem_type |-> "",
     algorithm |-> "", locals |-> {}, preprocessor |-> NewPreprocessor,
     fit_fault |-> FALSE, calls |-> <<>>, cause |-> "", msg |-> NoMsg]

FitIdle ==
    /\ training = NoTraining
    /\ models_dir = <<>>

NoSelection == [problem_type |-> ""]
NoRecommended == [called |-> FALSE]

SelectIdle ==
    /\ selection = NoSelection
    /\ recommended = NoRecommended

NoFitted == [pc |-> "new"]
NoPartition == [numeric |-> <<>>, categorical |-> <<>>]

TransformIdle ==
    /\ fitted = NoFitted
    /\ partition = NoPartition
    /\ transformed = <<>>

\* Nothing has been profiled or analysed
CoreIdle ==
    /\ DetectIdle
    /\ SchemaIdle
    /\ ProfileIdle
    /\ QualityIdle
    /\ UploadIdle
    /\ AnalysisIdle
    /\ LlmIdle
    /\ FitIdle
    /\ SelectIdle
    /\ TransformIdle
    /\ CorrelateIdle

\* The model store and the clients at start-up
StoreIdle ==
    /\ now = 0
    /\ uploads = <<>>
    /\ pipeFile = <<>>
    /\ metaFile = <<>>
    /\ tr = [w \in Workers |-> Idle]
    /\ nruns = 0
    /\ resp = NoResponse
    /\ batch = <<>>
    /\ variant = <<>>
    /\ out = NoOut
    /\ preprocessing_steps = <<>>
    /\ planOut = NoPlan

Init ==
    /\ now = 0
    /\ uploads = <<>>
    /\ pipeFile = <<>>
    /\ metaFile = <<>>
    /\ tr = [w \in Workers |-> Idle]
    /\ nruns = 0
    /\ resp = NoResponse
    /\ batch = <<>>
    /\ variant = <<>>
    /\ out = NoOut
    /\ preprocessing_steps = <<>>
    /\ planOut = NoPlan
    /\ CoreIdle

\* POST /upload/: a file is stored under a fresh session id
Upload(s) ==
    /\ s \notin DOMAIN uploads
    /\ uploads' = Put(uploads, s, DatasetOf(s))
    /\ UNCHANGED <<now, pipeFile, metaFile, tr, nruns, resp, predVars, planVars, coreVars>>

\* POST /train/ rejected: the handler returns an error response
TrainRejected(req) ==
    /\ LET h == TrainHandler(uploads, req, now)
       IN  /\ ~h.ok
           /\ resp' = h.resp
    /\ UNCHANGED <<now, uploads, pipeFile, metaFile, tr, nruns, predVars, planVars, coreVars>>

\* POST /train/ accepted: train_model has fitted and evaluated the pipeline
\* and generated the model id at clock reading t; _save_model is about to
\* run.  The request goes to the first idle server.
TrainFitted(w, req, t) ==
    /\ tr[w].pc = "idle"
    /\ \A v \in Workers : v < w => tr[v].pc # "idle"
    /\ nruns < MaxRuns
    /\ t >= now
    /\ now' = t
    /\ LET h == TrainHandler(uploads, req, t)
       IN  /\ h.ok
           /\ tr' = [tr EXCEPT ![w] =
                        [pc |-> "save_pipeline", model_id |-> h.result.model_id,
                         pipeline |-> h.result.pipeline,
                         metadata |-> h.result.metadata,
                         test_size |-> req.test_size]]
    /\ nruns' = nruns + 1
    /\ UNCHANGED <<uploads, pipeFile, metaFile, resp, predVars, planVars, coreVars>>

\* _save_model: joblib.dump(pipeline, model_path)
SavePipeline(w) ==
    /\ tr[w].pc = "save_pipeline"
    /\ pipeFile' = Put(pipeFile, tr[w].model_id, tr[w].pipeline)
    /\ tr' = [tr EXCEPT ![w].pc = "save_metadata"]
    /\ UNCHANGED <<now, uploads, metaFile, nruns, resp, predVars, planVars, coreVars>>

\* _save_model: joblib.dump(metadata, metadata_path), then the 200 response
SaveMetadata(w) ==
    /\ tr[w].pc = "save_metadata"
    /\ metaFile' = Put(metaFile, tr[w].model_id, tr[w].metadata)
    /\ resp' = TrainOk(tr[w].model_id, tr[w].test_size)
    /\ tr' = [tr EXCEPT ![w] = Idle]
    /\ UNCHANGED <<now, uploads, pipeFile, nruns, predVars, planVars, coreVars>>

\* The model ids a client asks for: those of the stored files and one that
\* was never trained
UnknownId == generate_model_id(SessNone, 0)

ReadIds == DOMAIN pipeFile \cup DOMAIN metaFile \cup {UnknownId}

FullRow == <<<<"f1", 1>>, <<"f2", 0>>>>
ShortRow == <<<<"f1", 1>>>>

ReadBatches == {<<>>, <<FullRow>>, <<ShortRow>>}

PredictRequest(model_id, data) ==
    /\ resp' = PredictHandler(pipeFile, metaFile, model_id, data)
    /\ UNCHANGED <<now, uploads, pipeFile, metaFile, tr, nruns, predVars, planVars, coreVars>>

InfoRequest(model_id) ==
    /\ resp' = InfoHandler(pipeFile, metaFile, model_id)
    /\ UNCHANGED <<now, uploads, pipeFile, metaFile, tr, nruns, predVars, planVars, coreVars>>

ListRequest ==
    /\ resp' = ListHandler(pipeFile, metaFile)
    /\ UNCHANGED <<now, uploads, pipeFile, metaFile, tr, nruns, predVars, planVars, coreVars>>

SummaryRequest(model_id) ==
    /\ resp' = SummaryHandler(pipeFile, metaFile, model_id)
    /\ UNCHANGED <<now, uploads, pipeFile, metaFile, tr, nruns, predVars, planVars, coreVars>>

Next ==
    \/ \E s \in Sessions : Upload(s)
    \/ \E req \in TrainRequests : TrainRejected(req)
    \/ \E w \in Workers, req \in TrainRequests, t \in 0..MaxClock : TrainFitted(w, req, t)
    \/ \E w \in Workers : SavePipeline(w)
    \/ \E w \in Workers : SaveMetadata(w)
    \/ \E id \in ReadIds, data \in ReadBatches : PredictRequest(id, data)
    \/ \E id \in ReadIds : InfoRequest(id)
    \/ ListRequest
    \/ \E id \in ReadIds : SummaryRequest(id)

Spec == Init /\ [][Next]_vars

\* ------------------------------------------------- prediction on its own
\* The store after one classification and one regression training
ClsModel == TrainModel(DataBinary, "y", SessA1, "auto", "random_forest", MinTestSize, 0)
RegModel ==
    TrainModel(DataContinuous, "y", SessA2, "auto", "random_forest", MinTestSize,
               TicksPerSecond)

\* Input rows over the persisted features f1, f2; the third leaves f2 out
CanonicalRows ==
    {<<<<"f1", 1>>, <<"f2", 0>>>>, <<<<"f1", 2>>, <<"f2", 1>>>>, <<<<"f1", 1>>>>}

Reverse(q) == [i \in 1..Len(q) |-> q[Len(q) + 1 - i]]

ExtraField == <<"note", 7>>

\* The same feature values in another key order or with an extra field
Variants(row) ==
    {row, Reverse(row), Append(row, ExtraField), <<ExtraField>> \o row}

InitPredict ==
    /\ now = MaxClock
    /\ uploads = Put(Put(<<>>, SessA1, DataBinary), SessA2, DataContinuous)
    /\ pipeFile = Put(Put(<<>>, ClsModel.model_id, ClsModel.pipeline),
                      RegModel.model_id, RegModel.pipeline)
    /\ metaFile = Put(Put(<<>>, ClsModel.model_id, ClsModel.metadata),
                      RegModel.model_id, RegModel.metadata)
    /\ tr = [w \in Workers |-> Idle]
    /\ nruns = MaxRuns
    /\ resp = NoResponse
    /\ batch = <<>>
    /\ variant = <<>>
    /\ out = NoOut
    /\ preprocessing_steps = <<>>
    /\ planOut = NoPlan
    /\ CoreIdle

\* The client adds a row to its batch
AddRow(row, v) ==
    /\ Len(batch) < MaxRows
    /\ batch' = Append(batch, row)
    /\ variant' = Append(variant, v)
    /\ out' = NoOut
    /\ UNCHANGED <<now, uploads, pipeFile, metaFile, tr, nruns, resp, planVars, coreVars>>

\* MLProcessor.predict(model_id, input_data), called for both batches
PredictBatch(model_id) ==
    /\ out' = [model_id |-> model_id,
               a |-> predict(pipeFile, metaFile, model_id, batch),
               b |-> predict(pipeFile, metaFile, model_id, variant)]
    /\ UNCHANGED <<now, uploads, pipeFile, metaFile, tr, nruns, resp, batch, variant, planVars, coreVars>>

\* The client starts another batch
NewBatch ==
    /\ batch # <<>>
    /\ batch' = <<>>
    /\ variant' = <<>>
    /\ out' = NoOut
    /\ UNCHANGED <<now, uploads, pipeFile, metaFile, tr, nruns, resp, planVars, coreVars>>

NextPredict ==
    \/ \E row \in CanonicalRows : \E v \in Variants(row) : AddRow(row, v)
    \/ \E id \in ReadIds : PredictBatch(id)
    \/ NewBatch

SpecPredict == InitPredict /\ [][NextPredict]_vars

\* ------------------------------------------- EnhancedDataPreprocessor
\* _get_default_config; percentages are whole numbers
DefaultConfig ==
    [missing_strategy_numeric |-> "auto", missing_strategy_categorical |-> "auto",
     scaling_method |-> "auto", categorical_encoding |-> "auto",
     outlier_treatment |-> "auto", feature_engineering |-> TRUE,
     max_categorical_cardinality |-> 50, outlier_threshold |-> 5]

\* The feature columns of a frame as _analyze_data_characteristics reads
\* them: dtype, percentage of missing values, percentage of outliers, number
\* of distinct values
Col(name, kind, missing, outliers, cardinality) ==
    [name |-> name, kind |-> kind, missing |-> missing, outliers |-> outliers,
     cardinality |-> cardinality]

PlanClean ==
    [dataset_size |-> 40,
     cols |-> <<Col("f1", "numeric", 0, 0, 40), Col("f2", "numeric", 0, 0, 2)>>]
PlanDirty ==
    [dataset_size |-> 40,
     cols |-> <<Col("n1", "numeric", 30, 10, 40), Col("c1", "categorical", 0, 0, 3)>>]
PlanWide ==
    [dataset_size |-> 2000,
     cols |-> <<Col("c1", "categorical", 0, 0, 60), Col("d1", "datetime", 0, 0, 90)>>]

PlanDatasets == {PlanClean, PlanDirty, PlanWide}

\* preprocessing_config overrides of the caller
PlanConfigs ==
    {DefaultConfig,
     [DefaultConfig EXCEPT !.feature_engineering = FALSE],
     [DefaultConfig EXCEPT !.scaling_method = "minmax"]}

OfKind(d, kind) == LET IsKind(c) == c.kind = kind IN SelectSeq(d.cols, IsKind)

TotalMissing(cols) == SumSeq([i \in 1..Len(cols) |-> cols[i].missing])

TotalOutliers(cols) == SumSeq([i \in 1..Len(cols) |-> cols[i].outliers])

OutlierCols(cols) == LET Many(c) == c.outliers > 5 IN SelectSeq(cols, Many)

_determine_missing_strategy_numeric(d, cols, config) ==
    IF config.missing_strategy_numeric # "auto" THEN config.missing_strategy_numeric
    ELSE LET total_missing == TotalMissing(cols)
         IN  IF total_missing > 20 * Len(cols) THEN "median"
             ELSE IF d.dataset_size > 1000 /\ total_missing > 5 * Len(cols) THEN "knn"
             ELSE "mean"

_determine_outlier_treatment(cols, config) ==
    IF config.outlier_treatment # "auto" THEN config.outlier_treatment
    ELSE IF TotalOutliers(cols) > config.outlier_threshold * Len(cols)
         THEN "iqr" ELSE "none"

_determine_scaling_method(cols, config) ==
    IF config.scaling_method # "auto" THEN config.scaling_method
    ELSE IF 2 * Len(OutlierCols(cols)) > Len(cols)
         THEN "robust" ELSE "standard"

\* _determine_categorical_encoding with one-hot below 10 distinct values only
_determine_categorical_encoding_Below10(cols, config) ==
    IF config.categorical_encoding # "auto" THEN config.categorical_encoding
    ELSE IF \E i \in 1..Len(cols) : cols[i].cardinality > config.max_categorical_cardinality
         THEN "frequency"
         ELSE IF \A i \in 1..Len(cols) : cols[i].cardinality < 10
         THEN "onehot" ELSE "target"

\* EnhancedDataPreprocessor._determine_categorical_encoding
_determine_categorical_encoding(cols, config) ==
    IF config.categorical_encoding # "auto" THEN config.categorical_encoding
    ELSE IF \E i \in 1..Len(cols) : cols[i].cardinality > config.max_categorical_cardinality
         THEN "frequency"
         ELSE IF \A i \in 1..Len(cols) : cols[i].cardinality <= 10
         THEN "onehot" ELSE "target"

\* What _create_numeric_transformer appends to self.preprocessing_steps
NumericSteps(d, cols, config) ==
    <<<<"Numeric imputation", _determine_missing_strategy_numeric(d, cols, config)>>>>
    \o (IF _determine_outlier_treatment(cols, config) # "none"
        THEN <<<<"Outlier treatment", _determine_outlier_treatment(cols, config)>>>>
        ELSE <<>>)
    \o (IF config.feature_engineering
        THEN <<<<"Numeric feature engineering applied", "">>>> ELSE <<>>)
    \o <<<<"Scaling", _determine_scaling_method(cols, config)>>>>

\* What _create_categorical_transformer appends
CategoricalSteps(cols, config) ==
    <<<<"Categorical imputation",
        IF config.missing_strategy_categorical # "auto"
        THEN config.missing_strategy_categorical ELSE "most_frequent">>,
      <<"Categorical encoding", _determine_categorical_encoding(cols, config)>>>>

\* What _create_datetime_transformer appends
DatetimeSteps == <<<<"DateTime feature engineering applied", "">>>>

\* EnhancedDataPreprocessor.create_preprocessing_pipeline on an instance whose
\* preprocessing_steps list holds steps: the list afterwards, and the
\* preprocessing_info it returns, which refers to that list
create_preprocessing_pipeline(steps, d, preprocessing_config) ==
    LET numeric == OfKind(d, "numeric")
        categorical == OfKind(d, "categorical")
        datetime == OfKind(d, "datetime")
        after == steps
                 \o (IF numeric # <<>> THEN NumericSteps(d, numeric, preprocessing_config)
                     ELSE <<>>)
                 \o (IF categorical # <<>>
                     THEN CategoricalSteps(categorical, preprocessing_config) ELSE <<>>)
                 \o (IF datetime # <<>> THEN DatetimeSteps ELSE <<>>)
    IN  [steps |-> after,
         info |-> [called |-> TRUE,
                   data |-> d,
                   numeric_features |-> [i \in 1..Len(numeric) |-> numeric[i].name],
                   categorical_features |->
                        [i \in 1..Len(categorical) |-> categorical[i].name],
                   datetime_features |-> [i \in 1..Len(datetime) |-> datetime[i].name],
                   total_features_before |-> Len(d.cols),
                   preprocessing_steps |-> after,
                   config_used |-> preprocessing_config]]

InitPlan ==
    /\ now = 0
    /\ uploads = <<>>
    /\ pipeFile = <<>>
    /\ metaFile = <<>>
    /\ tr = [w \in Workers |-> Idle]
    /\ nruns = 0
    /\ resp = NoResponse
    /\ batch = <<>>
    /\ variant = <<>>
    /\ out = NoOut
    /\ preprocessing_steps = <<>>
    /\ planOut = NoPlan
    /\ CoreIdle

\* A caller builds a preprocessing plan with the module-level instance
BuildPlan(d, config) ==
    /\ Len(preprocessing_steps) < MaxSteps
    /\ LET r == create_preprocessing_pipeline(preprocessing_steps, d, config)
       IN  /\ preprocessing_steps' = r.steps
           /\ planOut' = r.info
    /\ UNCHANGED <<now, uploads, pipeFile, metaFile, tr, nruns, resp, predVars, coreVars>>

NextPlan == \E d \in PlanDatasets, config \in PlanConfigs : BuildPlan(d, config)

SpecPlan == InitPlan /\ [][NextPlan]_vars

\* ---------------------------------------------- categorical transformer
\* The encoder _create_categorical_transformer builds for a method
CategoricalEncoder(encoding_method) ==
    IF encoding_method = "onehot" THEN "OneHotEncoder"
    ELSE IF encoding_method = "target" THEN "TargetEncoder"
    ELSE IF encoding_method = "frequency" THEN "FrequencyEncoder"
    ELSE "LabelEncoder"

\* EnhancedDataPreprocessor._create_categorical_transformer on an instance
\* whose preprocessing_steps list holds steps
create_categorical_transformer(steps, cols, config) ==
    [steps |-> steps \o CategoricalSteps(cols, config),
     info |-> [called |-> TRUE,
               cols |-> cols,
               config_used |-> config,
               encoding_method |-> _determine_categorical_encoding(cols, config),
               encoder |-> CategoricalEncoder(_determine_categorical_encoding(cols, config))]]

\* The categorical columns given: up to MaxCategorical columns, with
\* cardinalities on both sides of 10 and of the thresholds
MaxCategorical == 2

Cardinalities == {1, 5, 6, 10, 11, 50, 51}

CategoricalFrames ==
    {[c \in 1..n |-> Col("c", "categorical", 0, 0, cards[c])] :
        <<n, cards>> \in {q \in (1..MaxCategorical) \X [1..MaxCategorical -> Cardinalities] :
                             \A c \in (q[1] + 1)..MaxCategorical : q[2][c] = 1}}

\* preprocessing_config: the default, an encoding named, a threshold changed
EncodingConfigs ==
    {[DefaultConfig EXCEPT !.categorical_encoding = encoding,
                           !.max_categorical_cardinality = threshold] :
        encoding \in {"auto", "onehot", "target", "frequency"}, threshold \in {50, 5}}

InitEncoding ==
    /\ now = 0
    /\ uploads = <<>>
    /\ pipeFile = <<>>
    /\ metaFile = <<>>
    /\ tr = [w \in Workers |-> Idle]
    /\ nruns = 0
    /\ resp = NoResponse
    /\ batch = <<>>
    /\ variant = <<>>
    /\ out = NoOut
    /\ preprocessing_steps = <<>>
    /\ planOut \in {[called |-> FALSE, cols |-> cols, config_used |-> config] :
                        cols \in CategoricalFrames, config \in EncodingConfigs}
    /\ CoreIdle

\* _create_categorical_transformer(X[categorical_features], y, problem_type,
\* data_analysis, config) on a fresh instance
CreateCategoricalTransformer ==
    /\ ~planOut.called
    /\ LET r == create_categorical_transformer(preprocessing_steps, planOut.cols,
                                               planOut.config_used)
       IN  /\ preprocessing_steps' = r.steps
           /\ planOut' = r.info
    /\ UNCHANGED <<now, uploads, pipeFile, metaFile, tr, nruns, resp, predVars, coreVars>>

NextEncoding == CreateCategoricalTransformer

SpecEncoding == InitEncoding /\ [][NextEncoding]_vars

\* ------------------------------------------------ column type inference
\* A cell of a pandas Series: a missing value, a bool, a number or a string,
\* with the characters str() renders it to
MkCell(kind, text) == [kind |-> kind, text |-> text]

Null == MkCell("null", <<"n", "a", "n">>)
BoolTrue == MkCell("bool", <<"T", "r", "u", "e">>)
BoolFalse == MkCell("bool", <<"F", "a", "l", "s", "e">>)
Num12 == MkCell("num", <<"1", "2">>)
Num7 == MkCell("num", <<"7">>)
StrYes == MkCell("str", <<"y", "e", "s">>)
StrNo == MkCell("str", <<"n", "o">>)
Str12 == MkCell("str", <<"1", "2">>)
Str3p5 == MkCell("str", <<"3", ".", "5">>)
StrAbc == MkCell("str", <<"a", "b", "c">>)
StrShortDate == MkCell("str", <<"1", "/", "2", "/", "2", "1">>)
StrLongDate == MkCell("str", <<"1", "1", "/", "1", "2", "/", "2", "1">>)

\* series.dropna()
dropna(cells) == LET Present(c) == c.kind # "null" IN SelectSeq(cells, Present)

\* series.astype(str): a number of a float64 column is rendered with ".0"
AsStr(dtype, c) ==
    IF c.kind = "num" /\ dtype = "float64" THEN c.text \o <<".", "0">> ELSE c.text

boolean_values ==
    {<<"T", "r", "u", "e">>, <<"F", "a", "l", "s", "e">>,
     <<"t", "r", "u", "e">>, <<"f", "a", "l", "s", "e">>,
     <<"T", "R", "U", "E">>, <<"F", "A", "L", "S", "E">>,
     <<"y", "e", "s">>, <<"n", "o">>, <<"Y", "E", "S">>, <<"N", "O">>}

is_numeric_dtype(dtype) == dtype \in {"bool", "int64", "float64"}

is_datetime64_any_dtype(dtype) == dtype = "datetime64[ns]"

Digits == {"0", "1", "2", "3", "4", "5", "6", "7", "8", "9"}

DigitChars == <<"0", "1", "2", "3", "4", "5", "6", "7", "8", "9">>

DigitVal(ch) == (CHOOSE i \in 1..10 : DigitChars[i] = ch) - 1

\* The largest magnitudes pd.to_numeric takes for an integer string: 2^64 - 1,
\* and 2^63 behind a minus sign ("Integer out of range." beyond them)
UInt64MaxDigits ==
    <<"1", "8", "4", "4", "6", "7", "4", "4", "0", "7",
      "3", "7", "0", "9", "5", "5", "1", "6", "1", "5">>

Int64MinDigits ==
    <<"9", "2", "2", "3", "3", "7", "2", "0", "3", "6",
      "8", "5", "4", "7", "7", "5", "8", "0", "8">>

RECURSIVE StripZeros(_)
StripZeros(digits) ==
    IF Len(digits) > 1 /\ Head(digits) = "0" THEN StripZeros(Tail(digits)) ELSE digits

\* a <= b for digit strings without leading zeros
DigitsAtMost(a, b) ==
    \/ Len(a) < Len(b)
    \/ /\ Len(a) = Len(b)
       /\ \/ a = b
          \/ \E i \in 1..Len(a) :
                 /\ \A k \in 1..(i - 1) : a[k] = b[k]
                 /\ DigitVal(a[i]) < DigitVal(b[i])

\* The strings pd.to_numeric converts: an optional sign, digits, one point;
\* an integer has to lie within [-2^63, 2^64 - 1]
ParsesAsNumber(text) ==
    LET negative == text # <<>> /\ text[1] = "-"
        body == IF negative THEN Tail(text) ELSE text
        integer == \A i \in 1..Len(body) : body[i] \in Digits
    IN  /\ \A i \in 1..Len(body) : body[i] \in Digits \cup {"."}
        /\ \E i \in 1..Len(body) : body[i] \in Digits
        /\ Cardinality({i \in 1..Len(body) : body[i] = "."}) <= 1
        /\ integer =>
               DigitsAtMost(StripZeros(body),
                            IF negative THEN Int64MinDigits ELSE UInt64MaxDigits)

\* pd.to_numeric(non_null_series, errors='raise') returns
to_numeric_ok(cells) ==
    \A i \in 1..Len(cells) :
        \/ cells[i].kind \in {"num", "bool"}
        \/ cells[i].kind = "str" /\ ParsesAsNumber(cells[i].text)

\* The date strings considered: digits/digits/digits
ParsesAsDatetime(text) ==
    LET slashes == {i \in 1..Len(text) : text[i] = "/"}
    IN  /\ \A i \in 1..Len(text) : text[i] \in Digits \cup {"/"}
        /\ Cardinality(slashes) = 2
        /\ \A i \in slashes : /\ i > 1
                               /\ i < Len(text)
                               /\ i + 1 \notin slashes

\* pd.to_datetime(sample, errors='raise') returns
to_datetime_ok(cells) ==
    \A i \in 1..Len(cells) :
        cells[i].kind = "str" /\ ParsesAsDatetime(cells[i].text)

DatetimeSampleSize == 10
MinDateLength == 6
SeparatorChars == {"-", "/", ":", " "}

\* DataProcessor.infer_column_type without the boolean-token test
infer_column_type_NoTokens(series) ==
    LET non_null_series == dropna(series.cells)
        sample == Take(non_null_series, DatetimeSampleSize)
        sample_str == AsStr(series.dtype, sample[1])
    IN  IF Len(non_null_series) = 0 THEN "unknown"
        ELSE IF series.dtype = "bool" THEN "boolean"
        ELSE IF is_numeric_dtype(series.dtype) THEN "numerical"
        ELSE IF to_numeric_ok(non_null_series) THEN "numerical"
        ELSE IF is_datetime64_any_dtype(series.dtype) THEN "datetime"
        ELSE IF /\ ~is_numeric_dtype(series.dtype)
                /\ to_datetime_ok(sample)
                /\ \E i \in 1..Len(sample_str) : sample_str[i] \in SeparatorChars
                /\ Len(sample_str) > MinDateLength
             THEN "datetime"
        ELSE "categorical"

\* DataProcessor.infer_column_type
infer_column_type(series) ==
    LET non_null_series == dropna(series.cells)
        sample == Take(non_null_series, DatetimeSampleSize)
        sample_str == AsStr(series.dtype, sample[1])
    IN  IF Len(non_null_series) = 0 THEN "unknown"
        ELSE IF series.dtype = "bool" THEN "boolean"
        ELSE IF \A i \in 1..Len(non_null_series) :
                    AsStr(series.dtype, non_null_series[i]) \in boolean_values
             THEN "boolean"
        ELSE IF is_numeric_dtype(series.dtype) THEN "numerical"
        ELSE IF to_numeric_ok(non_null_series) THEN "numerical"
        ELSE IF is_datetime64_any_dtype(series.dtype) THEN "datetime"
        ELSE IF /\ ~is_numeric_dtype(series.dtype)
                /\ to_datetime_ok(sample)
                /\ \E i \in 1..Len(sample_str) : sample_str[i] \in SeparatorChars
                /\ Len(sample_str) > MinDateLength
             THEN "datetime"
        ELSE "categorical"

high_cardinality_threshold == 80    \* percent
constant_threshold == 95            \* percent
sample_size == 5

\* value_counts().iloc[0]: how often the most frequent value occurs
MostCommonCount(cells) ==
    LET Count(c) == Cardinality({i \in 1..Len(cells) : cells[i] = c})
    IN  CHOOSE n \in 0..Len(cells) :
            /\ \A i \in 1..Len(cells) : Count(cells[i]) <= n
            /\ cells # <<>> => \E i \in 1..Len(cells) : Count(cells[i]) = n

\* round(x, 2) of the percentage part / whole, in hundredths of a percent
PercentRounded(part, whole) == (part * 20000 + whole) \div (2 * whole)

\* DataProcessor.analyze_column
analyze_column(series) ==
    LET total_count == Len(series.cells)
        non_null_series == dropna(series.cells)
        null_count == total_count - Len(non_null_series)
        unique_values == Cardinality(Range(non_null_series))
    IN  [called |-> TRUE,
         type |-> infer_column_type(series),
         unique_values |-> unique_values,
         null_percentage |->
             IF total_count > 0 THEN PercentRounded(null_count, total_count) ELSE 0,
         is_high_cardinality |->
             IF total_count > 0
             THEN unique_values * 100 > high_cardinality_threshold * total_count
             ELSE FALSE,
         is_constant |->
             IF Len(non_null_series) > 0
             THEN MostCommonCount(non_null_series) * 100
                      > constant_threshold * Len(non_null_series)
             ELSE TRUE,
         sample_values |-> Take(non_null_series, sample_size)]

\* The columns analysed: up to MaxCells cells of one pandas dtype
SeqsUpTo(S, n) == UNION {[1..k -> S] : k \in 0..n}

MaxCells == 3

BoolColumns ==
    {[dtype |-> "bool", cells |-> c] : c \in SeqsUpTo({BoolTrue, BoolFalse}, MaxCells) \ {<<>>}}

NumberColumns ==
    {[dtype |-> IF \E i \in 1..Len(c) : c[i] = Null THEN "float64" ELSE "int64",
      cells |-> c] : c \in SeqsUpTo({Num12, Num7, Null}, MaxCells) \ {<<>>}}

ObjectFamilies ==
    {{BoolTrue, BoolFalse, Null}, {StrYes, StrNo, StrAbc, Null},
     {Str12, Str3p5, StrAbc, Null}, {StrShortDate, StrLongDate, StrAbc, Null}}

\* An object column holds strings, or bools next to a missing value
ObjectColumns ==
    {[dtype |-> "object", cells |-> c] :
        c \in {d \in UNION {SeqsUpTo(F, MaxCells) : F \in ObjectFamilies} :
                  (\E i \in 1..Len(d) : d[i].kind = "bool")
                      => \E i \in 1..Len(d) : d[i] = Null}}

Columns == BoolColumns \cup NumberColumns \cup ObjectColumns

InitSchema ==
    /\ StoreIdle
    /\ DetectIdle
    /\ ProfileIdle
    /\ QualityIdle
    /\ UploadIdle
    /\ AnalysisIdle
    /\ LlmIdle
    /\ FitIdle
    /\ SelectIdle
    /\ TransformIdle
    /\ CorrelateIdle
    /\ column \in Columns
    /\ schema = NoSchema

AnalyzeColumn ==
    /\ ~schema.called
    /\ schema' = analyze_column(column)
    /\ UNCHANGED <<trainVars, predVars, planVars, detectVars, column, profileVars, qualityVars, uploadVars, analysisVars, llmVars, fitVars, selectVars, transformVars, correlateVars>>

NextSchema == AnalyzeColumn

SpecSchema == InitSchema /\ [][NextSchema]_vars

\* ------------------------------------------------------------ profiling
\* A DataFrame is the sequence of its columns [name, dtype, cells]; a column
\* name is the sequence of its characters.
NumCell(n) == MkCell("num", <<DigitChars[n + 1]>>)

RECURSIVE ParseInt(_)
ParseInt(text) ==
    IF text = <<>> THEN 0
    ELSE 10 * ParseInt(SubSeq(text, 1, Len(text) - 1)) + DigitVal(text[Len(text)])

\* The number a numeric cell holds
ValueOf(c) == ParseInt(c.text)

\* df.select_dtypes(include=[np.number])
IsNumberColumn(col) == col.dtype \in {"int64", "float64"}

select_number_columns(df) == SelectSeq(df, IsNumberColumn)

\* The rows in which both columns hold a value, in order
PairedRows(x, y) ==
    LET Both(i) == x.cells[i].kind = "num" /\ y.cells[i].kind = "num"
    IN  SelectSeq([i \in 1..Len(x.cells) |-> i], Both)

NaNCorr == [nan |-> TRUE, sxy |-> 0, sxx |-> 0, syy |-> 0]

\* Pearson correlation over the pairwise complete rows, kept exact as
\* r = sxy / sqrt(sxx * syy); NaN with fewer than two rows or no variance
corr(x, y) ==
    LET rows == PairedRows(x, y)
        n == Len(rows)
        xs == [k \in 1..n |-> ValueOf(x.cells[rows[k]])]
        ys == [k \in 1..n |-> ValueOf(y.cells[rows[k]])]
        sxx == n * SumSeq([k \in 1..n |-> xs[k] * xs[k]]) - SumSeq(xs) * SumSeq(xs)
        syy == n * SumSeq([k \in 1..n |-> ys[k] * ys[k]]) - SumSeq(ys) * SumSeq(ys)
        sxy == n * SumSeq([k \in 1..n |-> xs[k] * ys[k]]) - SumSeq(xs) * SumSeq(ys)
    IN  IF n < 2 \/ sxx = 0 \/ syy = 0 THEN NaNCorr
        ELSE [nan |-> FALSE, sxy |-> sxy, sxx |-> sxx, syy |-> syy]

\* abs(r) > num / den
AbsAbove(r, num, den) == den * den * r.sxy * r.sxy > num * num * r.sxx * r.syy

RECURSIVE ISqrtIn(_, _, _)
ISqrtIn(n, lo, hi) ==
    IF lo = hi THEN lo
    ELSE LET mid == (lo + hi + 1) \div 2
         IN  IF mid * mid <= n THEN ISqrtIn(n, mid, hi) ELSE ISqrtIn(n, lo, mid - 1)

\* round(float(r), 3), in thousandths
RoundMilli(r) ==
    LET q == r.sxy * r.sxy
        d == r.sxx * r.syy
        twice == ISqrtIn((4000000 \div d) * q + ((4000000 % d) * q) \div d, 0, 2000)
        m == (twice + 1) \div 2
    IN  IF r.sxy < 0 THEN 0 - m ELSE m

\* key = f"{col1}_{col2}"
CorrKey(col1, col2) == col1 \o <<"_">> \o col2

\* if i < j, with both pairs of every two columns taken
PairTaken_Unequal(i, j) == i # j

\* if i < j:  # Avoid duplicates and self-correlation
PairTaken(i, j) == i < j

\* The two nested loops of calculate_correlations from pair number p on
RECURSIVE CorrelationLoop(_, _, _)
CorrelationLoop(cols, p, correlations) ==
    LET n == Len(cols)
        i == ((p - 1) \div n) + 1
        j == ((p - 1) % n) + 1
        corr_value == corr(cols[i], cols[j])
    IN  IF p > n * n THEN correlations
        ELSE CorrelationLoop(cols, p + 1,
                 IF /\ PairTaken(i, j)
                    /\ ~corr_value.nan
                    /\ AbsAbove(corr_value, 3, 10)
                 THEN Put(correlations, CorrKey(cols[i].name, cols[j].name),
                          RoundMilli(corr_value))
                 ELSE correlations)

\* DataProcessor.calculate_correlations
calculate_correlations(df) ==
    LET numerical_cols == select_number_columns(df)
    IN  IF Len(numerical_cols) < 2 THEN <<>>
        ELSE CorrelationLoop(numerical_cols, 1, <<>>)

\* round(num / den, 3) for num, den >= 0, in thousandths (ties to even)
RoundRatioMilli(num, den) ==
    LET q == (1000 * num) \div den
        r == (1000 * num) % den
    IN  IF 2 * r > den \/ (2 * r = den /\ q % 2 = 1) THEN q + 1 ELSE q

\* What assess_data_quality reads of a column: series.isnull().sum() and
\* series.nunique()
ColumnCounts(col) ==
    [name |-> col.name,
     missing |-> Len(col.cells) - Len(dropna(col.cells)),
     nunique |-> Cardinality(Range(dropna(col.cells)))]

FrameRowCount(df) == IF df = <<>> THEN 0 ELSE Len(df[1].cells)

\* df.duplicated().sum(): the rows equal to an earlier row
DuplicatedRows(df) ==
    Cardinality({i \in 1..FrameRowCount(df) :
        \E k \in 1..(i - 1) : \A c \in 1..Len(df) : df[c].cells[k] = df[c].cells[i]})

\* A DataFrame by the figures assess_data_quality reads
FrameCounts(df) ==
    [rows |-> FrameRowCount(df),
     columns |-> [c \in 1..Len(df) |-> ColumnCounts(df[c])],
     duplicate_rows |-> DuplicatedRows(df)]

\* completeness with an empty frame counted as complete
Completeness_EmptyIsComplete(total_cells, missing_cells) ==
    IF total_cells > 0
    THEN RoundRatioMilli(total_cells - missing_cells, total_cells)
    ELSE 1000

\* round((total_cells - missing_cells) / total_cells if total_cells > 0 else 0, 3)
Completeness(total_cells, missing_cells) ==
    IF total_cells > 0
    THEN RoundRatioMilli(total_cells - missing_cells, total_cells)
    ELSE 0

\* round(1 - consistency_issues / max_possible_issues, 3)
Consistency(consistency_issues, max_possible_issues) ==
    IF max_possible_issues > 0
    THEN IF consistency_issues <= max_possible_issues
         THEN RoundRatioMilli(max_possible_issues - consistency_issues,
                              max_possible_issues)
         ELSE 0 - RoundRatioMilli(consistency_issues - max_possible_issues,
                                  max_possible_issues)
    ELSE 1000

\* DataProcessor.assess_data_quality on the counts of a frame
assess_data_quality(cnt) ==
    LET total_cells == cnt.rows * Len(cnt.columns)
        missing_cells == SumSeq([c \in 1..Len(cnt.columns) |-> cnt.columns[c].missing])
        IsEmpty(c) == c.missing = cnt.rows
        IsConstant(c) == c.nunique <= 1
        empty_columns == SelectSeq(cnt.columns, IsEmpty)
        constant_columns == SelectSeq(cnt.columns, IsConstant)
    IN  [completeness |-> Completeness(total_cells, missing_cells),
         consistency |-> Consistency(Len(empty_columns) + Len(constant_columns),
                                     Len(cnt.columns)),
         duplicate_rows |-> cnt.duplicate_rows,
         empty_columns |-> [c \in 1..Len(empty_columns) |-> empty_columns[c].name],
         constant_columns |->
             [c \in 1..Len(constant_columns) |-> constant_columns[c].name],
         missing_cells |-> missing_cells,
         total_cells |-> total_cells]

NoTarget == <<>>

\* DataProcessor.detect_data_leakage
detect_data_leakage(df, target_column) ==
    LET IsTarget(col) == col.name = target_column
        Others(col) == col.name # target_column
        target_series_ == SelectSeq(df, IsTarget)[1]
        Issues(col) ==
            LET c == corr(col, target_series_)
            IN  (IF /\ is_numeric_dtype(col.dtype)
                    /\ is_numeric_dtype(target_series_.dtype)
                    /\ ~c.nan
                    /\ AbsAbove(c, 95, 100)
                 THEN <<[issue |-> "High correlation", column |-> col.name,
                         corr |-> RoundMilli(c)]>>
                 ELSE <<>>)
                \o (IF col.dtype = target_series_.dtype /\ col.cells = target_series_.cells
                    THEN <<[issue |-> "identical to target", column |-> col.name,
                            corr |-> 0]>>
                    ELSE <<>>)
        others == SelectSeq(df, Others)
        RECURSIVE Collect(_)
        Collect(k) == IF k > Len(others) THEN <<>> ELSE Issues(others[k]) \o Collect(k + 1)
    IN  IF target_column # NoTarget /\ SelectSeq(df, IsTarget) # <<>>
        THEN Collect(1)
        ELSE <<>>

\* A statistic of a profile: a finite number num / den, NaN, or None
Finite(num, den) == [kind |-> "finite", num |-> num, den |-> den]
NaNStat == [kind |-> "nan", num |-> 0, den |-> 1]
NoneStat == [kind |-> "null", num |-> 0, den |-> 1]

\* The non-null values of a numeric column, in row order
Values(col) ==
    LET cells == dropna(col.cells)
    IN  [k \in 1..Len(cells) |-> ValueOf(cells[k])]

RECURSIVE InsertSorted(_, _)
InsertSorted(sorted, v) ==
    IF sorted = <<>> THEN <<v>>
    ELSE IF v <= Head(sorted) THEN <<v>> \o sorted
    ELSE <<Head(sorted)>> \o InsertSorted(Tail(sorted), v)

RECURSIVE Sorted(_)
Sorted(vals) == IF vals = <<>> THEN <<>> ELSE InsertSorted(Sorted(Tail(vals)), Head(vals))

\* series.quantile(k / 4) with linear interpolation, times 4
Quantile4(vals, k) ==
    LET sorted == Sorted(vals)
        pos4 == (Len(vals) - 1) * k
        lo == (pos4 \div 4) + 1
        frac4 == pos4 % 4
    IN  IF frac4 = 0 THEN 4 * sorted[lo]
        ELSE 4 * sorted[lo] + frac4 * (sorted[lo + 1] - sorted[lo])

MinOutlierValues == 4
MinSkewValues == 3
MaxOutlierIndices == 10
ProfiledOutliers == 5

\* DataProcessor.detect_outliers(series, "iqr"): row labels outside
\* [Q1 - 1.5 IQR, Q3 + 1.5 IQR]
detect_outliers(col) ==
    LET vals == Values(col)
        Q1 == Quantile4(vals, 1)
        Q3 == Quantile4(vals, 3)
        IQR == Q3 - Q1
        Outside(i) ==
            /\ col.cells[i].kind = "num"
            /\ \/ 8 * ValueOf(col.cells[i]) < 2 * Q1 - 3 * IQR
               \/ 8 * ValueOf(col.cells[i]) > 2 * Q3 + 3 * IQR
        outlier_rows == SelectSeq([i \in 1..Len(col.cells) |-> i], Outside)
    IN  IF ~is_numeric_dtype(col.dtype) THEN <<>>
        ELSE IF Len(vals) < MinOutlierValues THEN <<>>
        ELSE Take([k \in 1..Len(outlier_rows) |-> outlier_rows[k] - 1], MaxOutlierIndices)

Sign(n) == IF n > 0 THEN 1 ELSE IF n < 0 THEN 0 - 1 ELSE 0

\* DataProcessor.calculate_skewness: float(stats.skew(clean_series)), kept as
\* the sign of the third central moment.  For a series without variance
\* stats.skew returns nan or 0.0 depending on the scipy release.
calculate_skewness(col, skew_of_constant) ==
    LET vals == Values(col)
        n == Len(vals)
        sum == SumSeq(vals)
        m2 == n * SumSeq([k \in 1..n |-> vals[k] * vals[k]]) - sum * sum
        m3 == SumSeq([k \in 1..n |->
                  (n * vals[k] - sum) * (n * vals[k] - sum) * (n * vals[k] - sum)])
    IN  IF ~is_numeric_dtype(col.dtype) THEN NoneStat
        ELSE IF n < MinSkewValues THEN NoneStat
        ELSE IF m2 = 0
        THEN (IF skew_of_constant = "nan" THEN NaNStat ELSE Finite(0, 1))
        ELSE Finite(Sign(m3), 1)

\* series.std(): sample standard deviation (ddof=1), kept as its square;
\* NaN for a single value
SeriesStd(vals) ==
    LET n == Len(vals)
        sum == SumSeq(vals)
    IN  IF n < 2 THEN NaNStat
        ELSE Finite(n * SumSeq([k \in 1..n |-> vals[k] * vals[k]]) - sum * sum,
                    n * (n - 1))

\* series.mean() and the other statistics of an object column of number
\* strings raise TypeError
TypeStatsRaise(col, type) == type = "numerical" /\ ~is_numeric_dtype(col.dtype)

\* profile.update({...}) for a numerical column
NumericalProfile(col, skew_of_constant) ==
    LET vals == Values(col)
        sorted == Sorted(vals)
    IN  [mean |-> Finite(SumSeq(vals), Len(vals)),
         std |-> SeriesStd(vals),
         min |-> Finite(sorted[1], 1),
         max |-> Finite(sorted[Len(sorted)], 1),
         quartiles |-> [k \in 1..3 |-> Finite(Quantile4(vals, k), 4)],
         skewness |-> calculate_skewness(col, skew_of_constant),
         outliers |-> Take(detect_outliers(col), ProfiledOutliers)]

\* profile.update({...}) for a categorical column (head(10) keeps every value
\* of the frames profiled here)
CategoricalProfile(col) ==
    LET cells == dropna(col.cells)
        Count(c) == Cardinality({i \in 1..Len(cells) : cells[i] = c})
        top == MostCommonCount(cells)
    IN  [top_values |-> [t \in {c.text : c \in Range(cells)} |->
                            Cardinality({i \in 1..Len(cells) : cells[i].text = t})],
         most_frequent |-> (CHOOSE c \in Range(cells) : Count(c) = top).text,
         frequency_of_top |-> top]

NoNumerical ==
    [mean |-> NoneStat, std |-> NoneStat, min |-> NoneStat, max |-> NoneStat,
     quartiles |-> <<>>, skewness |-> NoneStat, outliers |-> <<>>]

NoCategorical == [top_values |-> <<>>, most_frequent |-> <<>>, frequency_of_top |-> 0]

\* The profile of one column: the basic schema info and the statistics of
\* its type
ColumnProfile(col, skew_of_constant) ==
    LET col_schema == analyze_column(col)
    IN  [name |-> col.name,
         type |-> col_schema.type,
         count |-> Len(dropna(col.cells)),
         unique |-> col_schema.unique_values,
         null_count |-> Len(col.cells) - Len(dropna(col.cells)),
         null_percentage |-> col_schema.null_percentage,
         is_high_cardinality |-> col_schema.is_high_cardinality,
         is_constant |-> col_schema.is_constant,
         sample_values |-> col_schema.sample_values,
         numerical |-> IF col_schema.type = "numerical"
                       THEN NumericalProfile(col, skew_of_constant)
                       ELSE NoNumerical,
         categorical |-> IF col_schema.type = "categorical"
                         THEN CategoricalProfile(col)
                         ELSE NoCategorical]

\* DataProcessor.generate_comprehensive_profile on the frame pd.read_csv
\* returned (memory_usage is left out of dataset_info)
generate_comprehensive_profile(df, target_column, skew_of_constant) ==
    LET Raises(col) == TypeStatsRaise(col, infer_column_type(col))
        raising == SelectSeq(df, Raises)
        cnt == FrameCounts(df)
        data_quality == assess_data_quality(cnt)
    IN  IF raising # <<>>
        THEN Raise("ValueError",
                   Wrapped("Failed to generate comprehensive profile: ",
                           Msg("Could not convert string to numeric", NoId,
                               {raising[1].name})))
        ELSE [ok |-> TRUE,
              dataset_info |->
                  [rows |-> cnt.rows, columns |-> Len(df),
                   missing_values_total |-> data_quality.missing_cells,
                   duplicate_rows |-> cnt.duplicate_rows],
              column_profiles |->
                  [c \in 1..Len(df) |-> ColumnProfile(df[c], skew_of_constant)],
              correlations |-> calculate_correlations(df),
              data_quality |->
                  [completeness |-> data_quality.completeness,
                   consistency |-> data_quality.consistency,
                   duplicate_rows |-> data_quality.duplicate_rows,
                   empty_columns |-> data_quality.empty_columns,
                   constant_columns |-> data_quality.constant_columns,
                   missing_cells |-> data_quality.missing_cells,
                   total_cells |-> data_quality.total_cells,
                   potential_leakage |-> detect_data_leakage(df, target_column)]]

\* The frames profiled: FrameRows rows of the columns a, b and, in most, c
FrameRows == 4
MaxValue == 2

ColA == <<"a">>
ColB == <<"b">>
ColC == <<"c">>

\* An integer beyond 2^64 - 1, and the two integers -1 and 2^63 that no
\* 64-bit dtype holds together: pd.read_csv leaves such columns as strings
StrBigInt ==
    MkCell("str", <<"9", "9", "9", "9", "9", "9", "9", "9", "9", "9",
                    "9", "9", "9", "9", "9", "9", "9", "9", "9", "9">>)

StrMinusOne == MkCell("str", <<"-", "1">>)

StrTwoTo63 ==
    MkCell("str", <<"9", "2", "2", "3", "3", "7", "2", "0", "3", "6",
                    "8", "5", "4", "7", "7", "5", "8", "0", "8">>)

\* The dtype pd.read_csv gives a column of numbers
NumberDtype(cells) ==
    IF \E i \in 1..Len(cells) : cells[i] = Null THEN "float64" ELSE "int64"

NumberColumn(name, cells) == [name |-> name, dtype |-> NumberDtype(cells), cells |-> cells]

Ramp == [i \in 1..FrameRows |-> NumCell(Min2(i - 1, MaxValue))]
Step == [i \in 1..FrameRows |-> NumCell(IF i = 1 THEN 0 ELSE 1)]

ColumnsA == {NumberColumn(ColA, Ramp), NumberColumn(ColA, Step)}

ColumnsB ==
    {NumberColumn(ColB, cells) :
        cells \in [1..FrameRows -> {NumCell(v) : v \in 0..MaxValue} \cup {Null}]}

ColumnsC ==
    {NumberColumn(ColC, [i \in 1..FrameRows |-> IF i = 1 THEN NumCell(1) ELSE Null]),
     NumberColumn(ColC, [i \in 1..FrameRows |-> NumCell(1)]),
     NumberColumn(ColC, [i \in 1..FrameRows |-> Ramp[FrameRows + 1 - i]]),
     [name |-> ColC, dtype |-> "object",
      cells |-> [i \in 1..FrameRows |-> IF i = 2 THEN StrMinusOne ELSE StrTwoTo63]],
     [name |-> ColC, dtype |-> "object",
      cells |-> [i \in 1..FrameRows |-> IF i = 2 THEN Str12 ELSE StrBigInt]],
     [name |-> ColC, dtype |-> "object",
      cells |-> [i \in 1..FrameRows |-> IF i = 2 THEN StrYes ELSE StrAbc]]}

Frames ==
    {<<a, b>> : a \in ColumnsA, b \in ColumnsB}
        \cup {<<a, b, c>> : a \in ColumnsA, b \in ColumnsB, c \in ColumnsC}

InitProfile ==
    /\ StoreIdle
    /\ DetectIdle
    /\ SchemaIdle
    /\ QualityIdle
    /\ UploadIdle
    /\ AnalysisIdle
    /\ LlmIdle
    /\ FitIdle
    /\ SelectIdle
    /\ TransformIdle
    /\ CorrelateIdle
    /\ dataset \in Frames
    /\ profile = NoProfile

\* GET /profile/{session_id}?target_column=...
GenerateProfile(target_column, skew_of_constant) ==
    /\ ~profile.called
    /\ profile' = [called |-> TRUE, target_column |-> target_column,
                   result |-> generate_comprehensive_profile(dataset, target_column,
                                                             skew_of_constant)]
    /\ UNCHANGED <<trainVars, predVars, planVars, detectVars, schemaVars, dataset, qualityVars, uploadVars, analysisVars, llmVars, fitVars, selectVars, transformVars, correlateVars>>

NextProfile ==
    \E target_column \in {NoTarget, ColB}, skew_of_constant \in {"nan", "zero"} :
        GenerateProfile(target_column, skew_of_constant)

SpecProfile == InitProfile /\ [][NextProfile]_vars

\* ------------------------------------------------ data quality by counts
\* The frames assessed, by the figures assess_data_quality reads: up to
\* SmallRows rows or ManyRows rows, one or two columns, up to MaxMissing
\* missing cells per column
SmallRows == 3
ManyRows == 2000
MaxMissing == 3

QualityColumnNames == <<ColA, ColB>>

\* The (missing, nunique) pairs a column of the given number of rows can have
ColumnFigures(rows) ==
    {f \in [missing : 0..Min2(rows, MaxMissing), nunique : {0, 1, 2, rows, rows - 1}] :
        LET non_null == rows - f.missing
        IN  /\ f.nunique >= 0
            /\ f.nunique <= non_null
            /\ (f.nunique = 0) <=> (non_null = 0)}

\* Two equal rows need two equal cells in every column
DuplicateRowsPossible(rows, columns) ==
    \A c \in 1..Len(columns) :
        columns[c].nunique + Min2(columns[c].missing, 1) < rows

QualityCounts ==
    {[rows |-> rows,
      columns |-> [c \in 1..n |-> [name |-> QualityColumnNames[c],
                                    missing |-> figs[c].missing,
                                    nunique |-> figs[c].nunique]],
      duplicate_rows |-> dup] :
        <<rows, n, figs, dup>> \in
            {q \in (0..SmallRows \cup {ManyRows}) \X (1..2) \X
                   [1..2 -> UNION {ColumnFigures(r) : r \in 0..SmallRows \cup {ManyRows}}]
                   \X (0..1) :
                /\ \A c \in 1..2 : q[3][c] \in ColumnFigures(q[1])
                /\ q[2] = 1 => q[3][2] = q[3][1]
                /\ q[4] = 1 =>
                       DuplicateRowsPossible(q[1], [c \in 1..q[2] |-> q[3][c]])}}

InitQuality ==
    /\ StoreIdle
    /\ DetectIdle
    /\ SchemaIdle
    /\ ProfileIdle
    /\ UploadIdle
    /\ AnalysisIdle
    /\ LlmIdle
    /\ FitIdle
    /\ SelectIdle
    /\ TransformIdle
    /\ CorrelateIdle
    /\ frame_counts \in QualityCounts
    /\ quality = NoQuality

\* data_processor.assess_data_quality(df)
AssessQuality ==
    /\ ~quality.called
    /\ quality' = [called |-> TRUE, result |-> assess_data_quality(frame_counts)]
    /\ UNCHANGED <<trainVars, predVars, planVars, detectVars, schemaVars, profileVars,
                   frame_counts, uploadVars, analysisVars, llmVars, fitVars, selectVars, transformVars, correlateVars>>

NextQuality == AssessQuality

SpecQuality == InitQuality /\ [][NextQuality]_vars

\* ---------------------------------------------------------------- upload
\* POST /upload/: file names and session ids are sequences of characters; a
\* CSV file is its header, the number of fields of each data row and its
\* size in bytes.
MaxUploads == 2

\* str(uuid.uuid4()) of the n-th request
SessionIdOf(n) == <<"u", DigitChars[n + 1]>>

allowed_extensions == {<<".", "c", "s", "v">>}
max_file_size == 52428800

UpperChars ==
    <<"A", "B", "C", "D", "E", "F", "G", "H", "I", "J", "K", "L", "M",
      "N", "O", "P", "Q", "R", "S", "T", "U", "V", "W", "X", "Y", "Z">>

LowerChars ==
    <<"a", "b", "c", "d", "e", "f", "g", "h", "i", "j", "k", "l", "m",
      "n", "o", "p", "q", "r", "s", "t", "u", "v", "w", "x", "y", "z">>

LowerCase(ch) ==
    IF \E i \in 1..26 : UpperChars[i] = ch
    THEN LowerChars[CHOOSE i \in 1..26 : UpperChars[i] = ch]
    ELSE ch

\* str.lower()
lower(text) == [i \in 1..Len(text) |-> LowerCase(text[i])]

\* str.endswith(ext)
EndsWith(text, ext) ==
    /\ Len(text) >= Len(ext)
    /\ SubSeq(text, Len(text) - Len(ext) + 1, Len(text)) = ext

\* Path(name).suffix: from the last dot on, unless that dot leads or ends
\* the name
PathSuffix(name) ==
    LET dots == {i \in 1..Len(name) : name[i] = "."}
        last == CHOOSE i \in dots : \A k \in dots : k <= i
    IN  IF dots = {} THEN <<>>
        ELSE IF last = 1 \/ last = Len(name) THEN <<>>
        ELSE SubSeq(name, last, Len(name))

\* upload_dir.glob(f"{session_id}.*")
GlobSessionDot(names, session_id) ==
    {n \in names : /\ Len(n) > Len(session_id)
                   /\ SubSeq(n, 1, Len(session_id) + 1) = session_id \o <<".">>}

\* FileHandler.validate_file: the HTTPException it raises, or ok
validate_file(filename, file) ==
    IF ~\E ext \in allowed_extensions : EndsWith(lower(filename), ext)
    THEN [ok |-> FALSE, status |-> 400, error |-> "INVALID_FILE_TYPE"]
    ELSE IF file.size_known /\ file.size > max_file_size
    THEN [ok |-> FALSE, status |-> 413, error |-> "FILE_TOO_LARGE"]
    ELSE [ok |-> TRUE, status |-> 200, error |-> ""]

\* FileHandler.cleanup_file: the directory after it
cleanup_file(names, session_id) ==
    LET found == GlobSessionDot(names, session_id)
    IN  IF found = {} THEN names ELSE names \ {CHOOSE n \in found : TRUE}

\* FileHandler.get_file_path: the path found, or <<>> for None
NoPath == <<>>

get_file_path(names, session_id) ==
    LET paths == {session_id \o ext : ext \in allowed_extensions} \cap names
    IN  IF paths = {} THEN NoPath ELSE CHOOSE n \in paths : TRUE

\* pd.read_csv(file_path) raises: EmptyDataError for a file without a header
\* line, ParserError for a row with more fields than the lines before it
ReadCsvRaises(file) ==
    \/ file.header = <<>>
    \/ \E i \in 2..Len(file.widths) :
           file.widths[i] > Max2(Len(file.header), file.widths[1])

\* df.columns of the frame read: an empty name becomes "Unnamed: <i>", a
\* repeated name gets ".<k>" appended
FrameColumns(file) ==
    [i \in 1..Len(file.header) |->
        LET name == file.header[i]
            earlier == Cardinality({k \in 1..(i - 1) : file.header[k] = name})
        IN  IF name = <<>> THEN <<"Unnamed: ", DigitChars[i]>>
            ELSE IF earlier > 0 THEN name \o <<".", DigitChars[earlier + 1]>>
            ELSE name]

MaxColumnsAdvised == 1000

\* DataProcessor.validate_csv_structure
validate_csv_structure(file) ==
    LET columns == FrameColumns(file)
        IsUnnamed(col) == col # <<>> /\ col[1] = "Unnamed: "
        unnamed_cols == SelectSeq(columns, IsUnnamed)
        duplicate_cols ==
            {i \in 1..Len(columns) : \E k \in 1..(i - 1) : columns[k] = columns[i]}
        issues ==
            (IF Len(file.widths) = 0 THEN <<"Dataset is empty">> ELSE <<>>)
            \o (IF unnamed_cols # <<>> THEN <<"Found unnamed columns">> ELSE <<>>)
            \o (IF duplicate_cols # {} THEN <<"Found duplicate column names">> ELSE <<>>)
            \o (IF Len(columns) > MaxColumnsAdvised
                THEN <<"Dataset has many columns">> ELSE <<>>)
    IN  IF ReadCsvRaises(file)
        THEN [is_valid |-> FALSE, issues |-> <<"Failed to parse CSV">>,
              rows |-> 0, columns |-> 0]
        ELSE [is_valid |-> issues = <<>>, issues |-> issues,
              rows |-> Len(file.widths), columns |-> Len(columns)]

\* The steps after the structure check that can raise, or "none"
UploadFaults == {"none", "dataset_info", "schema", "database", "response"}

\* upload_csv_file: the directory and the answer it leaves
upload_csv_file(names, session_id, filename, file, fault) ==
    LET checked == validate_file(filename, file)
        file_path == session_id \o PathSuffix(filename)
        saved == names \cup {file_path}
        validation_result == validate_csv_structure(file)
        Answer(dir, status, error, issues) ==
            [dir |-> dir,
             entry |-> [session_id |-> session_id, filename |-> filename,
                        status |-> status, error |-> error, issues |-> issues]]
    IN  IF ~checked.ok
        THEN Answer(cleanup_file(names, session_id), checked.status, checked.error, <<>>)
        ELSE IF file.size > max_file_size
        THEN Answer(cleanup_file(saved \ {file_path}, session_id),
                    413, "FILE_TOO_LARGE", <<>>)
        ELSE IF ~validation_result.is_valid
        THEN Answer(cleanup_file(cleanup_file(saved, session_id), session_id),
                    400, "INVALID_CSV_STRUCTURE", validation_result.issues)
        ELSE IF fault \in {"dataset_info", "schema", "response"}
        THEN Answer(cleanup_file(saved, session_id),
                    500, "UPLOAD_PROCESSING_ERROR", <<>>)
        ELSE Answer(saved, 200, "", <<>>)

FileNameData == <<"d", "a", "t", "a", ".", "c", "s", "v">>
FileNameUpper == <<"D", "A", "T", "A", ".", "C", "S", "V">>
FileNameBare == <<".", "c", "s", "v">>
FileNameText == <<"d", "a", "t", "a", ".", "t", "x", "t">>
FileNames == {FileNameData, FileNameUpper, FileNameBare, FileNameText}

CsvFile(header, widths, size, size_known) ==
    [header |-> header, widths |-> widths, size |-> size, size_known |-> size_known]

CsvFiles ==
    {CsvFile(<<ColA, ColB>>, <<2, 2>>, 12, TRUE),
     CsvFile(<<ColA, ColB>>, <<>>, 4, TRUE),
     CsvFile(<<>>, <<>>, 0, TRUE),
     CsvFile(<<ColA, ColB>>, <<2, 4>>, 16, TRUE),
     CsvFile(<<ColA, <<>>>>, <<2>>, 7, TRUE),
     CsvFile(<<ColA, ColA>>, <<2>>, 8, TRUE),
     CsvFile(<<ColA, ColB>>, <<2, 2>>, max_file_size + 1, TRUE),
     CsvFile(<<ColA, ColB>>, <<2, 2>>, max_file_size + 1, FALSE)}

InitUpload ==
    /\ StoreIdle
    /\ DetectIdle
    /\ SchemaIdle
    /\ ProfileIdle
    /\ QualityIdle
    /\ AnalysisIdle
    /\ LlmIdle
    /\ FitIdle
    /\ SelectIdle
    /\ TransformIdle
    /\ CorrelateIdle
    /\ upload_dir = {}
    /\ upload_log = <<>>

\* POST /upload/
UploadCsvFile(filename, file, fault) ==
    /\ Len(upload_log) < MaxUploads
    /\ LET answer == upload_csv_file(upload_dir, SessionIdOf(Len(upload_log) + 1),
                                     filename, file, fault)
       IN  /\ upload_dir' = answer.dir
           /\ upload_log' = Append(upload_log, answer.entry)
    /\ UNCHANGED <<trainVars, predVars, planVars, detectVars, schemaVars, profileVars,
                   qualityVars, analysisVars, llmVars, fitVars, selectVars, transformVars, correlateVars>>

NextUpload ==
    \E filename \in FileNames, file \in CsvFiles, fault \in UploadFaults :
        UploadCsvFile(filename, file, fault)

SpecUpload == InitUpload /\ [][NextUpload]_vars

\* ------------------------------------------------- target recommendation
\* IntelligentDataAnalyzer: a frame is its row count and, per column, the
\* name, the dtype, the number of missing cells and the number of distinct
\* non-null values.
target_keywords_classification ==
    <<<<"t", "a", "r", "g", "e", "t">>,
      <<"l", "a", "b", "e", "l">>,
      <<"c", "l", "a", "s", "s">>,
      <<"c", "a", "t", "e", "g", "o", "r", "y">>,
      <<"t", "y", "p", "e">>,
      <<"s", "t", "a", "t", "u", "s">>,
      <<"o", "u", "t", "c", "o", "m", "e">>,
      <<"r", "e", "s", "u", "l", "t">>,
      <<"d", "e", "c", "i", "s", "i", "o", "n">>,
      <<"c", "l", "a", "s", "s", "i", "f", "i", "c", "a", "t", "i", "o", "n">>,
      <<"p", "r", "e", "d", "i", "c", "t">>,
      <<"c", "h", "u", "r", "n">>,
      <<"f", "r", "a", "u", "d">>,
      <<"s", "p", "a", "m">>,
      <<"s", "e", "n", "t", "i", "m", "e", "n", "t">>,
      <<"a", "p", "p", "r", "o", "v", "e", "d">>,
      <<"r", "e", "j", "e", "c", "t", "e", "d">>,
      <<"s", "u", "c", "c", "e", "s", "s">>,
      <<"f", "a", "i", "l", "u", "r", "e">>,
      <<"p", "o", "s", "i", "t", "i", "v", "e">>,
      <<"n", "e", "g", "a", "t", "i", "v", "e">>,
      <<"y", "e", "s">>,
      <<"n", "o">>,
      <<"t", "r", "u", "e">>,
      <<"f", "a", "l", "s", "e">>,
      <<"w", "i", "n">>,
      <<"l", "o", "s", "e">>>>

target_keywords_regression ==
    <<<<"p", "r", "i", "c", "e">>,
      <<"c", "o", "s", "t">>,
      <<"a", "m", "o", "u", "n", "t">>,
      <<"v", "a", "l", "u", "e">>,
      <<"s", "c", "o", "r", "e">>,
      <<"r", "a", "t", "i", "n", "g">>,
      <<"r", "e", "v", "e", "n", "u", "e">>,
      <<"s", "a", "l", "e", "s">>,
      <<"p", "r", "o", "f", "i", "t">>,
      <<"i", "n", "c", "o", "m", "e">>,
      <<"s", "a", "l", "a", "r", "y">>,
      <<"a", "g", "e">>,
      <<"w", "e", "i", "g", "h", "t">>,
      <<"h", "e", "i", "g", "h", "t">>,
      <<"t", "e", "m", "p", "e", "r", "a", "t", "u", "r", "e">>,
      <<"d", "i", "s", "t", "a", "n", "c", "e">>,
      <<"t", "i", "m", "e">>,
      <<"d", "u", "r", "a", "t", "i", "o", "n">>,
      <<"c", "o", "u", "n", "t">>,
      <<"q", "u", "a", "n", "t", "i", "t", "y">>,
      <<"p", "e", "r", "c", "e", "n", "t", "a", "g", "e">>,
      <<"r", "a", "t", "e">>,
      <<"r", "a", "t", "i", "o">>,
      <<"i", "n", "d", "e", "x">>,
      <<"m", "e", "a", "s", "u", "r", "e">>,
      <<"m", "e", "t", "r", "i", "c">>>>

suspicious_features ==
    <<<<"i", "d">>,
      <<"i", "n", "d", "e", "x">>,
      <<"k", "e", "y">>,
      <<"i", "d", "e", "n", "t", "i", "f", "i", "e", "r">>,
      <<"u", "u", "i", "d">>,
      <<"g", "u", "i", "d">>,
      <<"t", "i", "m", "e", "s", "t", "a", "m", "p">>,
      <<"c", "r", "e", "a", "t", "e", "d", "_", "a", "t">>,
      <<"u", "p", "d", "a", "t", "e", "d", "_", "a", "t">>,
      <<"d", "a", "t", "e", "_", "c", "r", "e", "a", "t", "e", "d">>,
      <<"d", "a", "t", "e", "_", "m", "o", "d", "i", "f", "i", "e", "d">>>>

\* keyword in text
Contains(text, keyword) ==
    \E i \in 1..(Len(text) - Len(keyword) + 1) :
        SubSeq(text, i, i + Len(keyword) - 1) = keyword

\* any(keyword in text for keyword in keywords)
AnyKeywordIn(keywords, text) == \E k \in 1..Len(keywords) : Contains(text, keywords[k])

NoProblemType == "none"

Assessment(suitability_score, is_suitable, problem_type, confidence, reasons) ==
    [suitability_score |-> suitability_score, is_suitable |-> is_suitable,
     problem_type |-> problem_type, confidence |-> confidence, reasons |-> reasons]

\* _assess_target_suitability for a name that is not identifier-like
AssessUnsuspicious(rows, col) ==
    LET col_name_lower == lower(col.name)
        keyword_type ==
            IF AnyKeywordIn(target_keywords_classification, col_name_lower)
            THEN "classification"
            ELSE IF AnyKeywordIn(target_keywords_regression, col_name_lower)
            THEN "regression"
            ELSE NoProblemType
        named == keyword_type # NoProblemType
        numeric == is_numeric_dtype(col.dtype)
        categorical == col.dtype \in {"object", "category"}
        high == 10 * col.nunique > 9 * rows
        kind_score ==
            IF numeric
            THEN (IF high THEN 25 ELSE IF col.nunique <= 10 THEN 20 ELSE 15)
            ELSE IF categorical
            THEN (IF col.nunique <= 20 THEN 20 ELSE 0 - 10)
            ELSE 0
        kind_type ==
            IF numeric
            THEN (IF high THEN "regression"
                  ELSE IF col.nunique <= 10 THEN "classification" ELSE "regression")
            ELSE IF categorical /\ col.nunique <= 20 THEN "classification"
            ELSE NoProblemType
        kind_reason ==
            IF numeric
            THEN (IF high THEN <<"High cardinality numeric suggests regression target">>
                  ELSE IF col.nunique <= 10
                  THEN <<"Low cardinality numeric could be classification target">>
                  ELSE <<"Medium cardinality numeric suggests regression target">>)
            ELSE IF categorical
            THEN (IF col.nunique <= 20
                  THEN <<"Categorical with reasonable number of classes">>
                  ELSE <<"Too many categories for typical classification">>)
            ELSE <<>>
        binary == col.nunique = 2
        missing_score ==
            IF 2 * col.missing > rows THEN 0 - 30
            ELSE IF 10 * col.missing > rows THEN 0 - 10
            ELSE 0
        suitability_score ==
            (IF named THEN 30 ELSE 0) + kind_score + (IF binary THEN 15 ELSE 0)
                + missing_score
        problem_type ==
            IF binary THEN "classification"
            ELSE IF named THEN keyword_type
            ELSE kind_type
        confidence ==
            (IF named THEN 30 ELSE 0)
                + (IF ~named /\ kind_type # NoProblemType /\ kind_score > 0
                   THEN kind_score ELSE 0)
                + (IF binary THEN 15 ELSE 0)
    IN  IF col.missing = rows
        THEN Assessment(0, FALSE, NoProblemType, 0, <<"Column has no data">>)
        ELSE IF col.nunique <= 1
        THEN Assessment(0, FALSE, NoProblemType, 0, <<"Column has constant values">>)
        ELSE Assessment(Max2(0, Min2(100, suitability_score)), suitability_score >= 20,
                        problem_type, Min2(100, confidence),
                        (IF named THEN <<"Column name suggests a problem type">> ELSE <<>>)
                            \o kind_reason
                            \o (IF binary
                                THEN <<"Binary target is ideal for classification">>
                                ELSE <<>>)
                            \o (IF 2 * col.missing > rows
                                THEN <<"Too many missing values for target variable">>
                                ELSE IF 10 * col.missing > rows
                                THEN <<"Some missing values in target">>
                                ELSE <<>>))

\* IntelligentDataAnalyzer._assess_target_suitability; scores are points,
\* the confidence is in hundredths
assess_target_suitability(rows, col) ==
    LET col_name_lower == lower(col.name)
        named ==
            \/ AnyKeywordIn(target_keywords_classification, col_name_lower)
            \/ AnyKeywordIn(target_keywords_regression, col_name_lower)
    IN  IF AnyKeywordIn(suspicious_features, col_name_lower)
        THEN Assessment(Max2(0, (IF named THEN 30 ELSE 0) - 50), FALSE, NoProblemType, 0,
                        (IF named THEN <<"Column name suggests a problem type">> ELSE <<>>)
                            \o <<"Column appears to be an identifier or metadata">>)
        ELSE AssessUnsuspicious(rows, col)

\* Outranks as an ascending sort followed by reverse() would order the list
Outranks_Reversed(r, earlier) == r.suitability_score >= earlier.suitability_score
\* Whether the sort moves r, which comes later in the list, ahead of
\* earlier: list.sort is stable, with reverse=True too, so only on a
\* strictly higher key
Outranks(r, earlier) == r.suitability_score > earlier.suitability_score

\* recommendations.sort(key=lambda x: x['suitability_score'], reverse=True)
RECURSIVE SortByScore(_)
SortByScore(recommendations) ==
    IF recommendations = <<>> THEN <<>>
    ELSE LET rest == SortByScore(Tail(recommendations))
             first == Head(recommendations)
             Ahead(r) == Outranks(r, first)
             Behind(r) == ~Outranks(r, first)
         IN  SelectSeq(rest, Ahead) \o <<first>> \o SelectSeq(rest, Behind)

TopTargets == 5
ClearTargetScore == 70

\* IntelligentDataAnalyzer._recommend_target_columns
recommend_target_columns(df) ==
    LET Entry(col) ==
            LET suitability == assess_target_suitability(df.rows, col)
            IN  [column_name |-> col.name,
                 suitability_score |-> suitability.suitability_score,
                 problem_type |-> suitability.problem_type,
                 confidence |-> suitability.confidence,
                 is_suitable |-> suitability.is_suitable]
        entries == [c \in 1..Len(df.columns) |-> Entry(df.columns[c])]
        IsSuitable(e) == e.is_suitable
        suitable == SelectSeq(entries, IsSuitable)
        recommendations ==
            SortByScore([k \in 1..Len(suitable) |->
                [column_name |-> suitable[k].column_name,
                 suitability_score |-> suitable[k].suitability_score,
                 problem_type |-> suitable[k].problem_type,
                 confidence |-> suitable[k].confidence]])
    IN  [recommended_targets |-> Take(recommendations, TopTargets),
         total_candidates |-> Len(recommendations),
         has_clear_target |->
             Len(recommendations) > 0
                 /\ recommendations[1].suitability_score > ClearTargetScore,
         best_recommendation |-> Take(recommendations, 1)]

RECURSIVE FirstBest(_)
\* max(recommended_targets, key=suitability_score): the first of the highest
FirstBest(recs) ==
    IF Len(recs) <= 1 THEN recs
    ELSE LET rest == FirstBest(Tail(recs))
         IN  IF rest[1].suitability_score > Head(recs).suitability_score
             THEN rest ELSE <<Head(recs)>>

\* get_intelligent_analysis: the target recommendations the handler builds
\* itself
simplified_target_recommendations(df) ==
    LET Entries(col) ==
            IF col.dtype \in {"int64", "float64"}
            THEN (IF 10 * col.nunique > df.rows
                  THEN <<[column_name |-> col.name, suitability_score |-> 80,
                          problem_type |-> "regression", confidence |-> 80]>>
                  ELSE IF 10 * col.nunique < df.rows /\ col.nunique <= 10
                  THEN <<[column_name |-> col.name, suitability_score |-> 85,
                          problem_type |-> "classification", confidence |-> 90]>>
                  ELSE <<>>)
            ELSE IF col.dtype = "object" /\ col.nunique <= 20
            THEN <<[column_name |-> col.name, suitability_score |-> 70,
                    problem_type |-> "classification", confidence |-> 70]>>
            ELSE <<>>
        RECURSIVE Collect(_)
        Collect(c) ==
            IF c > Len(df.columns) THEN <<>>
            ELSE Entries(df.columns[c]) \o Collect(c + 1)
        recommended_targets == Collect(1)
    IN  [recommended_targets |-> recommended_targets,
         total_candidates |-> Len(recommended_targets),
         has_clear_target |-> recommended_targets # <<>>,
         best_recommendation |-> FirstBest(recommended_targets)]

\* The frames analysed: AnalysedRows rows, one or two columns
AnalysedRows == 30

NameId == <<"i", "d">>
NameUserKey == <<"U", "s", "e", "r", "_", "K", "e", "y">>
NamePriceIndex == <<"p", "r", "i", "c", "e", "_", "i", "n", "d", "e", "x">>
NamePaid == <<"p", "a", "i", "d">>
NameTarget == <<"t", "a", "r", "g", "e", "t">>
NamePrice == <<"P", "r", "i", "c", "e">>
NameX == <<"x">>

ColumnNames == {NameId, NameUserKey, NamePriceIndex, NamePaid, NameTarget, NamePrice, NameX}

AnalysedColumns ==
    {[name |-> name, dtype |-> dtype, missing |-> missing, nunique |-> nunique] :
        <<name, dtype, missing, nunique>> \in
            {q \in ColumnNames \X {"int64", "float64", "object", "bool"}
                   \X {0, 4, 16, AnalysedRows}
                   \X {0, 1, 2, 3, 10, 11, 20, 21, AnalysedRows - 2, AnalysedRows} :
                /\ q[4] <= AnalysedRows - q[3]
                /\ (q[4] = 0) <=> (q[3] = AnalysedRows)
                /\ q[2] = "int64" => q[3] = 0
                /\ q[2] = "bool" => q[3] = 0 /\ q[4] <= 2}}

SecondColumns ==
    {[name |-> NamePrice, dtype |-> "float64", missing |-> 0, nunique |-> AnalysedRows],
     [name |-> NameTarget, dtype |-> "object", missing |-> 0, nunique |-> 2],
     [name |-> NameId, dtype |-> "int64", missing |-> 0, nunique |-> AnalysedRows]}

Tables ==
    {[rows |-> AnalysedRows, columns |-> <<c>>] : c \in AnalysedColumns}
        \cup {t \in {[rows |-> AnalysedRows, columns |-> <<c, d>>] :
                          c \in AnalysedColumns, d \in SecondColumns} :
                  t.columns[1].name # t.columns[2].name}

\* Frames wider than the list of recommendations is long, for its order and
\* its cut: every column is of one of four kinds, named by its position
WideColumns == 6

WideNames ==
    <<<<"c", "a">>, <<"c", "b">>, <<"c", "c">>, <<"c", "d">>, <<"c", "e">>, <<"c", "f">>,
      <<"c", "g">>, <<"c", "h">>>>

WideKinds ==
    {[dtype |-> "float64", missing |-> 0, nunique |-> AnalysedRows],
     [dtype |-> "object", missing |-> 0, nunique |-> 2],
     [dtype |-> "int64", missing |-> 0, nunique |-> 3],
     [dtype |-> "object", missing |-> 0, nunique |-> 21]}

WideTables ==
    {[rows |-> AnalysedRows,
      columns |-> [c \in 1..WideColumns |->
                      [name |-> WideNames[c], dtype |-> kinds[c].dtype,
                       missing |-> kinds[c].missing, nunique |-> kinds[c].nunique]]] :
        kinds \in [1..WideColumns -> WideKinds]}

\* Frames of a few rows, in which a numeric column of at most 10 distinct
\* values can have a unique ratio above 0.9
FewRows == 5

FewRowTables ==
    {[rows |-> FewRows,
      columns |-> <<[name |-> name, dtype |-> dtype, missing |-> 0, nunique |-> nunique]>>] :
        name \in {NameX, NamePrice}, dtype \in {"int64", "float64"},
        nunique \in {2, FewRows - 1, FewRows}}

InitAnalysis ==
    /\ StoreIdle
    /\ DetectIdle
    /\ SchemaIdle
    /\ ProfileIdle
    /\ QualityIdle
    /\ UploadIdle
    /\ LlmIdle
    /\ FitIdle
    /\ SelectIdle
    /\ TransformIdle
    /\ CorrelateIdle
    /\ table \in Tables \cup WideTables \cup FewRowTables
    /\ analysis = NoAnalysis

\* GET /profile/{session_id}/target-recommendations
GetTargetRecommendations ==
    /\ ~analysis.called
    /\ analysis' = [called |-> TRUE, endpoint |-> "target-recommendations",
                    target_recommendations |-> recommend_target_columns(table)]
    /\ UNCHANGED <<trainVars, predVars, planVars, detectVars, schemaVars, profileVars,
                   qualityVars, uploadVars, table, llmVars, fitVars, selectVars, transformVars, correlateVars>>

\* GET /profile/{session_id}/intelligent-analysis
GetIntelligentAnalysis ==
    /\ ~analysis.called
    /\ analysis' = [called |-> TRUE, endpoint |-> "intelligent-analysis",
                    target_recommendations |-> simplified_target_recommendations(table)]
    /\ UNCHANGED <<trainVars, predVars, planVars, detectVars, schemaVars, profileVars,
                   qualityVars, uploadVars, table, llmVars, fitVars, selectVars, transformVars, correlateVars>>

NextAnalysis == GetTargetRecommendations \/ GetIntelligentAnalysis

SpecAnalysis == InitAnalysis /\ [][NextAnalysis]_vars

\* ------------------------------------------------------------ summaries
\* LLMService: a text is a sequence of words; None is the empty record set
\* apart by its field given.
\* How requests.post and the answer's body turn out
ApiResponses ==
    {"timeout", "http_error", "not_json", "no_choices", "no_message", "blank_content",
     "text", "json_object"}

NoText == [is_none |-> TRUE, words |-> <<>>]

Text(words) == [is_none |-> FALSE, words |-> words]

\* if llm_summary:
Truthy(text) == ~text.is_none /\ text.words # <<>>

\* LLMService._make_api_request: the stripped content of the first choice,
\* or None
make_api_request(env) ==
    IF ~env.api_key THEN NoText
    ELSE IF env.response \in {"timeout", "http_error", "not_json"} THEN NoText
    ELSE IF env.response = "no_choices" THEN NoText
    ELSE IF env.response = "no_message" THEN NoText
    ELSE IF env.response = "blank_content" THEN Text(<<>>)
    ELSE IF env.response = "json_object" THEN Text(<<"{", "insights", "}">>)
    ELSE Text(<<"The", "dataset", "is", "clean">>)

Returned(value) == [ok |-> TRUE, value |-> value]

NoDatasetAnalysis == [given |-> FALSE]

DatasetAnalysis(rows, columns, missing_values_total, completeness) ==
    [given |-> TRUE,
     dataset_info |-> [rows |-> rows, columns |-> columns,
                       missing_values_total |-> missing_values_total,
                       duplicate_rows |-> 0],
     data_quality |-> [completeness |-> completeness],
     correlations |-> 1,
     strong_correlations |-> 0,
     numerical_columns |-> columns,
     categorical_columns |-> 0]

\* LLMService._generate_fallback_dataset_summary
generate_fallback_dataset_summary(data_summary) ==
    <<"Dataset contains", ToString(data_summary.rows), "rows and",
      ToString(data_summary.columns), "columns with",
      (IF data_summary.completeness > 900 THEN "high"
       ELSE IF data_summary.completeness > 700 THEN "moderate" ELSE "low"),
      "data quality", ToString(data_summary.completeness), "complete",
      ToString(data_summary.numerical_columns), "numerical and",
      ToString(data_summary.categorical_columns), "categorical features",
      ToString(data_summary.missing_values), "missing values and",
      ToString(data_summary.duplicate_rows), "duplicate rows",
      ToString(data_summary.correlations_count), "feature correlations",
      ToString(data_summary.strong_correlations), "strong correlations">>

\* data_summary of generate_dataset_summary
DataSummary(dataset_analysis) ==
    [rows |-> dataset_analysis.dataset_info.rows,
     columns |-> dataset_analysis.dataset_info.columns,
     missing_values |-> dataset_analysis.dataset_info.missing_values_total,
     duplicate_rows |-> dataset_analysis.dataset_info.duplicate_rows,
     completeness |-> dataset_analysis.data_quality.completeness,
     correlations_count |-> dataset_analysis.correlations,
     strong_correlations |-> dataset_analysis.strong_correlations,
     numerical_columns |-> dataset_analysis.numerical_columns,
     categorical_columns |-> dataset_analysis.categorical_columns]

\* LLMService.generate_dataset_summary
generate_dataset_summary(env, dataset_analysis) ==
    LET data_summary == DataSummary(dataset_analysis)
        llm_summary == make_api_request(env)
    IN  IF ~dataset_analysis.given
        THEN Raise("AttributeError", Msg("'NoneType' object has no attribute 'get'",
                                         NoId, {}))
        ELSE IF data_summary.rows * data_summary.columns = 0
        THEN Raise("ZeroDivisionError", Msg("division by zero", NoId, {}))
        ELSE IF Truthy(llm_summary) THEN Returned(llm_summary.words)
        ELSE Returned(generate_fallback_dataset_summary(data_summary))

NoMetrics == [given |-> FALSE, accuracy |-> 0, r2_score |-> 0]

Metadatas ==
    {[algorithm |-> "random_forest", problem_type |-> "classification",
      target_column |-> "y", feature_count |-> 2],
     [algorithm |-> "linear_regression", problem_type |-> "regression",
      target_column |-> "y", feature_count |-> 1]}

MetricsGiven == {NoMetrics, [given |-> TRUE, accuracy |-> 90, r2_score |-> 50]}

\* metrics_text of generate_model_summary
MetricsText(problem_type, evaluation_metrics) ==
    IF ~evaluation_metrics.given THEN <<>>
    ELSE IF problem_type = "classification"
    THEN <<"Accuracy", ToString(evaluation_metrics.accuracy)>>
    ELSE <<"R2 Score", ToString(evaluation_metrics.r2_score)>>

\* LLMService._generate_fallback_model_summary
generate_fallback_model_summary(model_info, metrics_text) ==
    <<"This", model_info.algorithm, "model was trained for", model_info.problem_type,
      "to predict", model_info.target_column, "using",
      ToString(model_info.feature_count), "features from",
      ToString(model_info.dataset_rows), "training samples", "The model achieved">>
        \o (IF metrics_text # <<>> THEN metrics_text
            ELSE <<"performance metrics are available in the detailed results">>)

\* algorithm.replace('_', ' ').title()
AlgorithmTitle(algorithm) ==
    IF algorithm = "random_forest" THEN "Random Forest"
    ELSE IF algorithm = "linear_regression" THEN "Linear Regression"
    ELSE algorithm

\* model_info of generate_model_summary
ModelInfo(metadata, dataset_analysis) ==
    [algorithm |-> AlgorithmTitle(metadata.algorithm),
     problem_type |-> metadata.problem_type,
     target_column |-> metadata.target_column,
     feature_count |-> metadata.feature_count,
     dataset_rows |-> IF dataset_analysis.given
                      THEN dataset_analysis.dataset_info.rows ELSE 0,
     data_quality |-> IF dataset_analysis.given
                      THEN dataset_analysis.data_quality.completeness ELSE 0]

\* LLMService.generate_model_summary
generate_model_summary(env, metadata, dataset_analysis, evaluation_metrics) ==
    LET model_info == ModelInfo(metadata, dataset_analysis)
        metrics_text == MetricsText(metadata.problem_type, evaluation_metrics)
        llm_summary == make_api_request(env)
    IN  IF Truthy(llm_summary) THEN Returned(llm_summary.words)
        ELSE Returned(generate_fallback_model_summary(model_info, metrics_text))

\* LLMService._generate_fallback_insights, as the words of its four lists
generate_fallback_insights(context) ==
    <<"Model trained on", ToString(context.dataset.rows), "samples with",
      ToString(context.dataset.quality), "data completeness",
      "Using", ToString(context.model.features), "features for",
      context.model.problem_type, "with", context.model.algorithm,
      "Validate model performance on new data", "Automated decision support",
      "Deploy model for testing">>

\* context of generate_insights_and_recommendations
InsightsContext(dataset_analysis, metadata) ==
    [dataset |-> [rows |-> dataset_analysis.dataset_info.rows,
                  columns |-> dataset_analysis.dataset_info.columns,
                  quality |-> dataset_analysis.data_quality.completeness,
                  correlations |-> dataset_analysis.correlations],
     model |-> [algorithm |-> metadata.algorithm,
                problem_type |-> metadata.problem_type,
                features |-> metadata.feature_count]]

\* LLMService.generate_insights_and_recommendations
generate_insights_and_recommendations(env, dataset_analysis, metadata) ==
    LET context == InsightsContext(dataset_analysis, metadata)
        llm_response == make_api_request(env)
    IN  IF ~dataset_analysis.given
        THEN Raise("AttributeError", Msg("'NoneType' object has no attribute 'get'",
                                         NoId, {}))
        ELSE IF Truthy(llm_response)
        THEN (IF env.response = "json_object" THEN Returned(llm_response.words)
              ELSE Returned(llm_response.words \o <<"Review LLM response format">>))
        ELSE Returned(generate_fallback_insights(context))

\* The profiles the summary handlers pass on: of a stored dataset, or None
\* when the dataset of the model's session is gone
SummaryRows == 3

GivenAnalyses ==
    {DatasetAnalysis(rows, columns, missing, completeness) :
        rows \in 1..SummaryRows, columns \in 1..2, missing \in 0..1,
        completeness \in {650, 800, 1000}}

InitLlm ==
    /\ StoreIdle
    /\ DetectIdle
    /\ SchemaIdle
    /\ ProfileIdle
    /\ QualityIdle
    /\ UploadIdle
    /\ AnalysisIdle
    /\ FitIdle
    /\ SelectIdle
    /\ TransformIdle
    /\ CorrelateIdle
    /\ llm_env \in [api_key : BOOLEAN, response : ApiResponses]
    /\ llm_out = NoLlmOut

\* llm_service.generate_dataset_summary(dataset_analysis)
GenerateDatasetSummary(dataset_analysis) ==
    /\ ~llm_out.called
    /\ llm_out' = [called |-> TRUE, function |-> "generate_dataset_summary",
                   dataset_analysis |-> dataset_analysis,
                   metadata |-> CHOOSE md \in Metadatas : TRUE,
                   evaluation_metrics |-> NoMetrics,
                   result |-> generate_dataset_summary(llm_env, dataset_analysis)]
    /\ UNCHANGED <<trainVars, predVars, planVars, detectVars, schemaVars, profileVars,
                   qualityVars, uploadVars, analysisVars, llm_env, fitVars, selectVars, transformVars, correlateVars>>

\* llm_service.generate_model_summary(metadata, dataset_analysis, metrics)
GenerateModelSummary(metadata, dataset_analysis, evaluation_metrics) ==
    /\ ~llm_out.called
    /\ llm_out' = [called |-> TRUE, function |-> "generate_model_summary",
                   dataset_analysis |-> dataset_analysis,
                   metadata |-> metadata,
                   evaluation_metrics |-> evaluation_metrics,
                   result |-> generate_model_summary(llm_env, metadata, dataset_analysis,
                                                     evaluation_metrics)]
    /\ UNCHANGED <<trainVars, predVars, planVars, detectVars, schemaVars, profileVars,
                   qualityVars, uploadVars, analysisVars, llm_env, fitVars, selectVars, transformVars, correlateVars>>

\* llm_service.generate_insights_and_recommendations(dataset_analysis, metadata, ...)
GenerateInsights(dataset_analysis, metadata) ==
    /\ ~llm_out.called
    /\ llm_out' = [called |-> TRUE, function |-> "generate_insights_and_recommendations",
                   dataset_analysis |-> dataset_analysis,
                   metadata |-> metadata,
                   evaluation_metrics |-> NoMetrics,
                   result |-> generate_insights_and_recommendations(llm_env, dataset_analysis,
                                                                    metadata)]
    /\ UNCHANGED <<trainVars, predVars, planVars, detectVars, schemaVars, profileVars,
                   qualityVars, uploadVars, analysisVars, llm_env, fitVars, selectVars, transformVars, correlateVars>>

NextLlm ==
    \/ \E dataset_analysis \in GivenAnalyses : GenerateDatasetSummary(dataset_analysis)
    \/ \E metadata \in Metadatas, dataset_analysis \in GivenAnalyses \cup {NoDatasetAnalysis},
          evaluation_metrics \in MetricsGiven :
           GenerateModelSummary(metadata, dataset_analysis, evaluation_metrics)
    \/ \E dataset_analysis \in GivenAnalyses \cup {NoDatasetAnalysis}, metadata \in Metadatas :
           GenerateInsights(dataset_analysis, metadata)

SpecLlm == InitLlm /\ [][NextLlm]_vars

\* ------------------------------------- problem type resolved by training
\* A target column as pd.read_csv delivers it, by the figures the detection
\* reads: dtype, distinct non-null values, non-null values, smallest class
TargetSeries ==
    {y \in [numeric : BOOLEAN, nunique : 0..MaxUnique, nonnull : 0..MaxNonNull,
            minclass : 0..2] :
        IF y.nonnull = 0
        THEN y.nunique = 0 /\ y.minclass = 0
        ELSE /\ y.nunique >= 1
             /\ y.minclass >= 1
             /\ y.nunique * y.minclass <= y.nonnull}

TargetFrame(y) == [name |-> "target", columns |-> <<"f1", "f2", "y">>, y |-> y]

DefaultTestSize == 20

InitDetect ==
    /\ StoreIdle
    /\ SchemaIdle
    /\ ProfileIdle
    /\ QualityIdle
    /\ UploadIdle
    /\ AnalysisIdle
    /\ LlmIdle
    /\ FitIdle
    /\ SelectIdle
    /\ TransformIdle
    /\ CorrelateIdle
    /\ target_series \in TargetSeries
    /\ detected = NoDetection

\* train_model(file_path, "y", session, model_type="auto") up to _save_model
TrainAuto ==
    /\ ~detected.called
    /\ LET r == TrainModel(TargetFrame(target_series), "y", SessA1, "auto", "random_forest",
                           DefaultTestSize, 0)
       IN  detected' = [called |-> TRUE,
                        inferred |-> infer_problem_type(target_series),
                        detected |-> detect_problem_type(target_series),
                        ok |-> r.ok,
                        problem_type |-> IF r.ok THEN r.metadata.problem_type ELSE "",
                        msg |-> IF r.ok THEN NoMsg ELSE r.msg]
    /\ UNCHANGED <<trainVars, predVars, planVars, target_series, schemaVars, profileVars, qualityVars, uploadVars, analysisVars, llmVars, fitVars, selectVars, transformVars, correlateVars>>

NextDetect == TrainAuto

SpecDetect == InitDetect /\ [][NextDetect]_vars

\* ------------------------------------------------ training calls (steps)
TrainingEntries == {"train_model", "train_model_enhanced"}

FitOthers ==
    <<trainVars, predVars, planVars, detectVars, schemaVars, profileVars, qualityVars,
      uploadVars, analysisVars, llmVars, selectVars, transformVars, correlateVars>>

\* The data a fit of the current call is given: X_train
FittedData_Whole(t) == Part(t.call, "all")
FittedData(t) == Part(t.call, "train")

\* The data the current call holds out: X_test
HeldOutData(t) == Part(t.call, "test")

\* except Exception as e: raise ValueError(f"Model training failed: {str(e)}"),
\* and around it, on the enhanced entry,
\* except Exception as e: raise ValueError(f"Enhanced training failed: {str(e)}")
TrainingFails(t, in_train_model, cause, msg) ==
    LET inner == IF in_train_model THEN Wrapped("Model training failed: ", msg) ELSE msg
    IN  [t EXCEPT !.pc = "failed", !.cause = cause,
                  !.msg = IF t.entry = "train_model_enhanced"
                          THEN Wrapped("Enhanced training failed: ", inner)
                          ELSE inner]

\* A local name read before any statement of the frame assigned it
UnboundLocal(name) ==
    Msg("cannot access local variable '{names}' where it is not associated with a value",
        NoId, {name})

InitFit ==
    /\ StoreIdle
    /\ DetectIdle
    /\ SchemaIdle
    /\ ProfileIdle
    /\ QualityIdle
    /\ UploadIdle
    /\ AnalysisIdle
    /\ LlmIdle
    /\ FitIdle
    /\ SelectIdle
    /\ TransformIdle
    /\ CorrelateIdle

\* train_model(file_path, ...) down to create_preprocessing_pipeline(X), or
\* the handler's call train_model_enhanced(df, ..., preprocessor, ...) down
\* to X, y: the handler answers 400 on a target column the file lacks and
\* resolves "auto" with detect_problem_type before it calls
BeginTraining(entry, df, target_column, model_type, algorithm, fit_fault) ==
    /\ training.pc \in {"idle", "done", "failed"}
    /\ training.call < MaxTrainings
    /\ entry = "train_model_enhanced" => target_column \in Range(df.columns)
    /\ LET t == [NoTraining EXCEPT !.call = training.call + 1, !.entry = entry,
                                   !.df = df.name, !.algorithm = algorithm]
       IN  IF target_column \notin Range(df.columns)
           THEN training' =
                    TrainingFails(t, TRUE, "ValueError",
                        Msg("Target column '{names}' not found in dataset",
                            NoId, {target_column}))
           ELSE training' =
                    [t EXCEPT !.pc = "split",
                              !.problem_type =
                                  IF model_type # "auto" THEN model_type
                                  ELSE IF entry = "train_model"
                                  THEN infer_problem_type(df.y)
                                  ELSE detect_problem_type(df.y),
                              !.locals = IF entry = "train_model"
                                         THEN {"X", "preprocessor"} ELSE {},
                              !.fit_fault = entry = "train_model_enhanced" /\ fit_fault]
    /\ UNCHANGED <<FitOthers, models_dir>>

\* X_train, X_test, y_train, y_test = train_test_split(X, y, ..., stratify=...)
SplitData(df) ==
    /\ training.pc = "split"
    /\ df.name = training.df
    /\ training' =
           IF SplitRaises(df, training.problem_type)
           THEN TrainingFails(training, training.entry = "train_model", "ValueError",
                    Msg("The least populated class in y has only 1 member", NoId, {}))
           ELSE [training EXCEPT !.pc = "fit_transform"]
    /\ UNCHANGED <<FitOthers, models_dir>>

\* X_train_processed = preprocessor.fit_transform(X_train)
FitTransformTrain ==
    /\ training.pc = "fit_transform"
    /\ training' =
           IF training.fit_fault
           THEN TrainingFails(training, FALSE, "TypeError",
                    Msg("fit_transform() missing 1 required positional argument: 'y'",
                        NoId, {}))
           ELSE [training EXCEPT
                    !.pc = "transform",
                    !.preprocessor = Fit(@, FittedData(training)),
                    !.calls = Append(@, Call("preprocessor", "fit_transform",
                                             FittedData(training)))]
    /\ UNCHANGED <<FitOthers, models_dir>>

\* X_test_processed = preprocessor.transform(X_test); on the enhanced entry
\* the call train_model(file_path=None, ..., X_train=X_train_processed, ...)
\* follows, whose frame binds neither X nor preprocessor
TransformTest ==
    /\ training.pc = "transform"
    /\ training' = [training EXCEPT
                       !.pc = "checks",
                       !.calls = Append(@, Call("preprocessor", "transform",
                                                HeldOutData(training)))]
    /\ UNCHANGED <<FitOthers, models_dir>>

\* The checks of problem type and algorithm, then
\* Pipeline([('preprocessor', preprocessor), ('model', model)])
BuildPipeline ==
    /\ training.pc = "checks"
    /\ training' =
           IF training.problem_type \notin {"classification", "regression"}
           THEN TrainingFails(training, TRUE, "ValueError",
                    Msg("Invalid problem type: {names}", NoId, {training.problem_type}))
           ELSE IF training.algorithm \notin DOMAIN ModelConfigs
           THEN TrainingFails(training, TRUE, "ValueError",
                    Msg("Unsupported algorithm: {names}", NoId, {training.algorithm}))
           ELSE IF "preprocessor" \notin training.locals
           THEN TrainingFails(training, TRUE, "UnboundLocalError",
                              UnboundLocal("preprocessor"))
           ELSE [training EXCEPT !.pc = "pipeline_fit"]
    /\ UNCHANGED <<FitOthers, models_dir>>

\* pipeline.fit(X_train, y_train_processed): fits the preprocessor again,
\* then the estimator on what it returns
PipelineFit(df) ==
    /\ training.pc = "pipeline_fit"
    /\ df.name = training.df
    /\ training' =
           LET t == [training EXCEPT
                        !.preprocessor = Fit(@, FittedData(training)),
                        !.calls = Append(@, Call("preprocessor", "fit_transform",
                                                 FittedData(training)))]
           IN  IF FitRaises(df, training.problem_type)
               THEN TrainingFails(t, TRUE, "ValueError",
                        Msg("could not convert string to float: 'no'", NoId, {}))
               ELSE [t EXCEPT !.pc = "predict",
                              !.calls = Append(@, Call("model", "fit", FittedData(training)))]
    /\ UNCHANGED <<FitOthers, models_dir>>

\* y_pred = pipeline.predict(X_test) and the metrics of it
PipelineEvaluate ==
    /\ training.pc = "predict"
    /\ training' = [training EXCEPT
                       !.pc = "save",
                       !.calls = @ \o <<Call("preprocessor", "transform",
                                             HeldOutData(training)),
                                        Call("model", "predict", HeldOutData(training))>>]
    /\ UNCHANGED <<FitOthers, models_dir>>

\* original_feature_names = X.columns.tolist() ...; self._save_model(pipeline, ...)
SaveModel ==
    /\ training.pc = "save"
    /\ IF "X" \notin training.locals
       THEN /\ training' = TrainingFails(training, TRUE, "UnboundLocalError",
                                         UnboundLocal("X"))
            /\ UNCHANGED models_dir
       ELSE /\ training' = [training EXCEPT !.pc = "done"]
            /\ models_dir' = Put(models_dir, training.call,
                                 [preprocessor |-> training.preprocessor,
                                  entry |-> training.entry,
                                  problem_type |-> training.problem_type,
                                  algorithm |-> training.algorithm])
    /\ UNCHANGED FitOthers

NextFit ==
    \/ \E entry \in TrainingEntries, s \in Sessions, target_column \in TargetInputs,
          model_type \in ModelTypeInputs \cup {"classification"},
          algorithm \in AlgorithmInputs, fit_fault \in BOOLEAN :
           BeginTraining(entry, DatasetOf(s), target_column, model_type, algorithm,
                         fit_fault)
    \/ \E s \in Sessions : SplitData(DatasetOf(s))
    \/ FitTransformTrain
    \/ TransformTest
    \/ BuildPipeline
    \/ \E s \in Sessions : PipelineFit(DatasetOf(s))
    \/ PipelineEvaluate
    \/ SaveModel

SpecFit == InitFit /\ [][NextFit]_vars

\* ------------------------------------------------- SmartModelSelector
Model(model_name, best_for, complexity, training_time) ==
    [model_name |-> model_name, best_for |-> best_for, complexity |-> complexity,
     training_time |-> training_time]

\* self.classification_models, in the order of the dict
classification_models ==
    <<Model("logistic_regression", {"small_data", "interpretable", "linear_relationships"},
            "low", "fast"),
      Model("random_forest", {"medium_data", "non_linear", "feature_importance"},
            "medium", "medium"),
      Model("xgboost", {"large_data", "high_performance", "competitions"}, "high", "slow"),
      Model("svm", {"small_data", "high_dimensional", "clear_margins"}, "medium", "slow"),
      Model("knn", {"small_data", "local_patterns", "simple_baseline"}, "low", "fast"),
      Model("naive_bayes", {"small_data", "text_classification", "baseline"},
            "low", "very_fast"),
      Model("decision_tree", {"interpretable", "rule_based", "baseline"}, "low", "fast")>>

\* self.regression_models
regression_models ==
    <<Model("linear_regression", {"small_data", "interpretable", "linear_relationships"},
            "low", "very_fast"),
      Model("ridge_regression", {"small_data", "regularization", "multicollinearity"},
            "low", "fast"),
      Model("lasso_regression", {"feature_selection", "sparse_data", "regularization"},
            "low", "fast"),
      Model("random_forest", {"medium_data", "non_linear", "feature_importance"},
            "medium", "medium"),
      Model("xgboost", {"large_data", "high_performance", "competitions"}, "high", "slow"),
      Model("svm", {"small_data", "high_dimensional", "non_linear"}, "medium", "slow"),
      Model("knn", {"small_data", "local_patterns", "simple_baseline"}, "low", "fast"),
      Model("decision_tree", {"interpretable", "rule_based", "baseline"}, "low", "fast")>>

\* SmartModelSelector._get_interpretability_score
get_interpretability_score(model_name) ==
    LET interpretability_scores ==
            [linear_regression |-> 10, ridge_regression |-> 9, lasso_regression |-> 9,
             logistic_regression |-> 9, decision_tree |-> 8, naive_bayes |-> 7, knn |-> 6,
             svm |-> 4, random_forest |-> 3, xgboost |-> 2]
    IN  IF model_name \in DOMAIN interpretability_scores
        THEN interpretability_scores[model_name] ELSE 5

\* SmartModelSelector._match_training_time_preference: the score it gives
match_training_time_preference(model_time, preferred_time) ==
    LET time_hierarchy == [very_fast |-> 1, fast |-> 2, medium |-> 3, slow |-> 4]
        Rank(t) == IF t \in DOMAIN time_hierarchy THEN time_hierarchy[t] ELSE 3
        model_time_score == Rank(model_time)
        preferred_time_score == Rank(preferred_time)
    IN  IF model_time_score <= preferred_time_score
        THEN 15 - (preferred_time_score - model_time_score) * 3
        ELSE 0

\* SmartModelSelector._score_model: total_score
score_model(model_info, dataset_chars, preferences) ==
    LET model_name == model_info.model_name
        size_category ==
            IF dataset_chars.dataset_size < 1000 THEN "small"
            ELSE IF dataset_chars.dataset_size < 10000 THEN "medium"
            ELSE "large"
        size_score ==
            IF (size_category \o "_data") \in model_info.best_for THEN 25
            ELSE IF size_category = "small" /\ model_info.complexity = "low" THEN 15
            ELSE IF size_category = "large" /\ model_info.complexity = "high" THEN 15
            ELSE 0
        feature_score ==
            IF dataset_chars.feature_count > 50 /\ "high_dimensional" \in model_info.best_for
            THEN 20
            ELSE IF dataset_chars.feature_count < 10 /\ model_info.complexity = "low"
            THEN 10
            ELSE 0
        performance_score ==
            IF preferences.performance = "high" /\ "high_performance" \in model_info.best_for
            THEN 20
            ELSE IF preferences.performance = "medium" /\ model_info.complexity = "medium"
            THEN 10
            ELSE 0
        interpretability_score == get_interpretability_score(model_name)
        interpretability ==
            IF preferences.interpretability = "high" /\ interpretability_score >= 8 THEN 15
            ELSE IF preferences.interpretability = "medium" /\ interpretability_score >= 5
            THEN 10
            ELSE IF preferences.interpretability = "low" THEN 5
            ELSE 0
        training_time ==
            match_training_time_preference(model_info.training_time,
                                           preferences.training_time)
        missing_bonus ==
            IF dataset_chars.data_quality.missing_percentage > 20
                   /\ model_name \in {"random_forest", "xgboost"}
            THEN 10 ELSE 0
        \* "or 'robust' in model_name": no registered model name contains it
        outlier_bonus ==
            IF dataset_chars.data_quality.outlier_percentage > 10
                   /\ model_name \in {"random_forest", "xgboost"}
            THEN 10 ELSE 0
        score == size_score + feature_score + performance_score + interpretability
                     + training_time + missing_bonus + outlier_bonus
    IN  Max2(0, Min2(100, score))

\* model_scores.sort(key=lambda x: x['score'], reverse=True): stable
RECURSIVE SortModels(_)
SortModels(model_scores) ==
    IF model_scores = <<>> THEN <<>>
    ELSE LET rest == SortModels(Tail(model_scores))
             first == Head(model_scores)
             Ahead(r) == r.score > first.score
             Behind(r) == r.score <= first.score
         IN  SelectSeq(rest, Ahead) \o <<first>> \o SelectSeq(rest, Behind)

TopModels == 5

\* model_scores with nothing cut
Recommended_All(model_scores) == model_scores
\* return model_scores[:5]
Recommended(model_scores) == Take(model_scores, TopModels)

\* SmartModelSelector.recommend_models
recommend_models(dataset_characteristics, problem_type, preferences) ==
    LET available_models ==
            IF problem_type = "classification" THEN classification_models
            ELSE regression_models
        model_scores ==
            [k \in 1..Len(available_models) |->
                [model_name |-> available_models[k].model_name,
                 score |-> score_model(available_models[k], dataset_characteristics,
                                       preferences)]]
    IN  Recommended(SortModels(model_scores))

\* The characteristics the handlers pass, on both sides of every threshold
\* of _score_model; percentages are whole numbers
DatasetCharacteristics ==
    [dataset_size : {999, 1000, 9999, 10000},
     feature_count : {9, 10, 50, 51},
     data_quality : [missing_percentage : {20, 21}, outlier_percentage : {10, 11}]]

\* The default preferences updated with the user's
Preferences ==
    [interpretability : {"low", "medium", "high"},
     training_time : {"very_fast", "medium", "slow"},
     performance : {"medium", "high"},
     complexity : {"medium"}]

InitSelect ==
    /\ StoreIdle
    /\ DetectIdle
    /\ SchemaIdle
    /\ ProfileIdle
    /\ QualityIdle
    /\ UploadIdle
    /\ AnalysisIdle
    /\ LlmIdle
    /\ FitIdle
    /\ TransformIdle
    /\ CorrelateIdle
    /\ selection \in [dataset_characteristics : DatasetCharacteristics,
                       problem_type : {"classification", "regression", "clustering"},
                       preferences : Preferences]
    /\ recommended = NoRecommended

\* smart_model_selector.recommend_models(dataset_characteristics, problem_type)
RecommendModels ==
    /\ ~recommended.called
    /\ recommended' =
           [called |-> TRUE,
            models |-> recommend_models(selection.dataset_characteristics,
                                        selection.problem_type, selection.preferences)]
    /\ UNCHANGED <<trainVars, predVars, planVars, detectVars, schemaVars, profileVars,
                   qualityVars, uploadVars, analysisVars, llmVars, fitVars, selection, transformVars, correlateVars>>

NextSelect == RecommendModels

SpecSelect == InitSelect /\ [][NextSelect]_vars

\* ------------------------------------------------ custom transformers
\* OutlierTransformer and FrequencyEncoder.  An array is the sequence of its
\* columns, a column the sequence of its cells.  transform is modelled with
\* everything it can touch: it returns the transformer and the array it was
\* given as the call leaves them, and the array it returns.
HeldOutRows == 2
MaxTransforms == 2

\* OutlierTransformer.fit: bounds_[i] for every column; the training columns
\* hold multiples of 8, so that the bounds are whole numbers
OutlierFit(method, X) ==
    [method |-> method,
     bounds_ |->
        IF method = "iqr"
        THEN [i \in 1..Len(X) |->
                 LET Q1 == Quantile4(X[i], 1)
                     Q3 == Quantile4(X[i], 3)
                     IQR == Q3 - Q1
                 IN  [lower |-> (2 * Q1 - 3 * IQR) \div 8,
                      upper |-> (2 * Q3 + 3 * IQR) \div 8]]
        ELSE <<>>]

\* np.clip(column, lower, upper)
Clip(cells, bounds) ==
    [r \in 1..Len(cells) |-> Min2(Max2(cells[r], bounds.lower), bounds.upper)]

\* OutlierTransformer.transform clipping the array it was given in place
OutlierTransform_InPlace(self, X) ==
    LET X_transformed ==
            [i \in 1..Len(X) |->
                IF i \in DOMAIN self.bounds_ THEN Clip(X[i], self.bounds_[i]) ELSE X[i]]
    IN  [self |-> self, X |-> X_transformed, returned |-> X_transformed]

\* OutlierTransformer.transform: X_transformed = X.copy(), then the clipping
OutlierTransform(self, X) ==
    LET X_transformed ==
            [i \in 1..Len(X) |->
                IF i \in DOMAIN self.bounds_ THEN Clip(X[i], self.bounds_[i]) ELSE X[i]]
    IN  [self |-> self, X |-> X, returned |-> X_transformed]

\* np.unique(column, return_counts=True) as dict(zip(unique, counts))
Frequencies(cells) ==
    [v \in Range(cells) |-> Cardinality({r \in 1..Len(cells) : cells[r] = v})]

\* FrequencyEncoder.fit
FrequencyFit(X) == [frequency_maps_ |-> [i \in 1..Len(X) |-> Frequencies(X[i])]]

\* FrequencyEncoder.transform: X.copy(), freq_map.get(val, 0) for every cell
FrequencyTransform(self, X) ==
    LET X_transformed ==
            [i \in 1..Len(X) |->
                IF i \in DOMAIN self.frequency_maps_
                THEN [r \in 1..Len(X[i]) |->
                         IF X[i][r] \in DOMAIN self.frequency_maps_[i]
                         THEN self.frequency_maps_[i][X[i][r]] ELSE 0]
                ELSE X[i]]
    IN  [self |-> self, X |-> X, returned |-> X_transformed]

\* The training partitions a plan is fitted on
TrainingArrays ==
    {[numeric |-> <<<<8, 16, 24, 32, 40>>>>, categorical |-> <<<<"a", "a", "b", "a", "b">>>>],
     [numeric |-> <<<<0, 0, 8, 8, 800>>>>, categorical |-> <<<<"a", "b", "c", "a", "a">>>>],
     [numeric |-> <<<<16, 16, 16, 16, 16>>>>, categorical |-> <<<<"b", "b", "b", "b", "b">>>>]}

\* The held-out partitions: values inside and outside the bounds, labels
\* seen and not seen in training
HeldOutArrays ==
    [numeric : {<<cells>> : cells \in [1..HeldOutRows -> {0 - 40, 12, 400}]},
     categorical : {<<cells>> : cells \in [1..HeldOutRows -> {"a", "b", "z"}]}]

TransformOthers ==
    <<trainVars, predVars, planVars, detectVars, schemaVars, profileVars, qualityVars,
      uploadVars, analysisVars, llmVars, fitVars, selectVars, correlateVars>>

InitTransform ==
    /\ StoreIdle
    /\ DetectIdle
    /\ SchemaIdle
    /\ ProfileIdle
    /\ QualityIdle
    /\ UploadIdle
    /\ AnalysisIdle
    /\ LlmIdle
    /\ FitIdle
    /\ SelectIdle
    /\ CorrelateIdle
    /\ fitted = NoFitted
    /\ partition \in HeldOutArrays
    /\ transformed = <<>>

\* preprocessor.fit_transform(X_train): fit of each transformer
FitPlan(method, train) ==
    /\ fitted.pc = "new"
    /\ fitted' = [pc |-> "fitted",
                  outlier |-> OutlierFit(method, train.numeric),
                  encoder |-> FrequencyFit(train.categorical)]
    /\ UNCHANGED <<TransformOthers, partition, transformed>>

\* preprocessor.transform(X_test)
TransformHeldOut ==
    /\ fitted.pc = "fitted"
    /\ Len(transformed) < MaxTransforms
    /\ LET o == OutlierTransform(fitted.outlier, partition.numeric)
           f == FrequencyTransform(fitted.encoder, partition.categorical)
       IN  /\ fitted' = [fitted EXCEPT !.outlier = o.self, !.encoder = f.self]
           /\ partition' = [numeric |-> o.X, categorical |-> f.X]
           /\ transformed' = Append(transformed,
                                    [given |-> partition,
                                     before |-> fitted,
                                     numeric |-> o.returned,
                                     categorical |-> f.returned])
    /\ UNCHANGED TransformOthers

NextTransform ==
    \/ \E method \in {"iqr", "zscore"}, train \in TrainingArrays : FitPlan(method, train)
    \/ TransformHeldOut

SpecTransform == InitTransform /\ [][NextTransform]_vars

\* ------------------------------------------------------ correlation keys
\* calculate_correlations on frames whose headers are written in snake
\* case, so that a column name may itself hold the separator of the key
MaxNumeric == 4

ColAB == <<"a", "_", "b">>
ColBC == <<"b", "_", "c">>
ColBA == <<"b", "_", "a">>

SnakeNames == {ColA, ColC, ColAB, ColBC, ColBA}

Alternating == [i \in 1..FrameRows |-> NumCell(i % 2)]
Level == [i \in 1..FrameRows |-> NumCell(1)]

SnakeColumns ==
    {NumberColumn(name, cells) : name \in SnakeNames, cells \in {Ramp, Alternating, Level}}

\* pd.read_csv gives every column a name of its own
NumericFrames ==
    UNION {{df \in [1..n -> SnakeColumns] :
               \A i, j \in 1..n : i # j => df[i].name # df[j].name} : n \in 2..MaxNumeric}

CorrelateOthers ==
    <<trainVars, predVars, planVars, detectVars, schemaVars, profileVars, qualityVars,
      uploadVars, analysisVars, llmVars, fitVars, selectVars, transformVars>>

InitCorrelate ==
    /\ StoreIdle
    /\ DetectIdle
    /\ SchemaIdle
    /\ ProfileIdle
    /\ QualityIdle
    /\ UploadIdle
    /\ AnalysisIdle
    /\ LlmIdle
    /\ FitIdle
    /\ SelectIdle
    /\ TransformIdle
    /\ corr_frame \in NumericFrames
    /\ corr_result = NoCorrelations

\* processor.calculate_correlations(df)
CalculateCorrelations ==
    /\ ~corr_result.called
    /\ corr_result' = [called |-> TRUE,
                       correlations |-> calculate_correlations(corr_frame)]
    /\ UNCHANGED <<CorrelateOthers, corr_frame>>

NextCorrelate == CalculateCorrelations

SpecCorrelate == InitCorrelate /\ [][NextCorrelate]_vars

\* ------------------------------------------- a session from upload to summary
\* POST /upload/, POST /train/, DELETE /upload/session/{session_id} and
\* GET /summary/{model_id} against the upload directory and the models
\* directory.  Each handler is one step and leaves its answer in resp.
SessionOthers ==
    <<uploads, tr, predVars, planVars, detectVars, schemaVars, profileVars, qualityVars,
      analysisVars, llm_env, llm_out, fitVars, selectVars, transformVars, correlateVars>>

\* file_handler.generate_session_id() of the n-th upload
IssuedSession(n) == IF n = 1 THEN SessA1 ELSE SessA2

\* The CSV file a session uploads: a header and two complete rows
StoredCsv == CsvFile(<<ColA, ColB>>, <<2, 2>>, 12, TRUE)

\* pd.read_csv of the files in the upload directory, by session
StoredFiles(names) ==
    [s \in {x \in Sessions : get_file_path(names, x) # NoPath} |-> DatasetOf(s)]

\* data_processor.generate_comprehensive_profile(file_path, target_column) of
\* a stored dataset; these datasets have no missing cell and no duplicate row
StoredProfile(df) == DatasetAnalysis(df.y.nonnull, Len(df.columns), 0, 1000)

\* The metadata fields the summary generators read
SummaryMetadata(metadata) ==
    [algorithm |-> metadata.algorithm, problem_type |-> metadata.problem_type,
     target_column |-> metadata.target_column,
     feature_count |-> Len(metadata.feature_names)]

\* GET /summary/{model_id}: api/summary.py get_model_summary
ModelSummaryHandler(pipes, metas, names, env, model_id) ==
    LET basic_summary == get_model_summary(pipes, metas, model_id)
    IN  IF ~basic_summary.ok
        THEN [SummaryHandler(pipes, metas, model_id) EXCEPT !.op = "model_summary"]
        ELSE
        LET metadata == basic_summary.metadata
            file_path == get_file_path(names, metadata.session_id)
            dataset_analysis ==
                IF file_path = NoPath THEN NoDatasetAnalysis
                ELSE StoredProfile(StoredFiles(names)[metadata.session_id])
            llm_insights ==
                generate_insights_and_recommendations(env, dataset_analysis,
                                                      SummaryMetadata(metadata))
        IN  IF ~llm_insights.ok
            THEN Response("model_summary", 500, "SUMMARY_GENERATION_ERROR",
                          llm_insights.msg, model_id)
            ELSE [op |-> "model_summary", status |-> 200, error |-> "",
                  message |-> NoMsg, model_id |-> model_id,
                  dataset_summary |->
                      [session_id |-> metadata.session_id,
                       enhanced |-> dataset_analysis.given,
                       total_rows |-> IF dataset_analysis.given
                                      THEN dataset_analysis.dataset_info.rows ELSE 0],
                  model_summary |-> metadata,
                  insights |-> llm_insights.value]

\* The requests of a session: the target y, a tenth of the rows held out
SessionTrainRequests ==
    {req \in TrainRequests : /\ req.target_column = "y"
                             /\ req.test_size = MinTestSize
                             /\ req.algorithm = "random_forest"}

InitSession ==
    /\ StoreIdle
    /\ DetectIdle
    /\ SchemaIdle
    /\ ProfileIdle
    /\ QualityIdle
    /\ UploadIdle
    /\ AnalysisIdle
    /\ FitIdle
    /\ SelectIdle
    /\ TransformIdle
    /\ CorrelateIdle
    /\ llm_env \in [api_key : BOOLEAN, response : {"timeout", "json_object"}]
    /\ llm_out = NoLlmOut

\* POST /upload/ of a valid file
SessionUpload ==
    /\ Len(upload_log) < Cardinality(Sessions)
    /\ LET session_id == IssuedSession(Len(upload_log) + 1)
           answer == upload_csv_file(upload_dir, session_id, FileNameData, StoredCsv, "none")
       IN  /\ upload_dir' = answer.dir
           /\ upload_log' = Append(upload_log, answer.entry)
           /\ resp' = Response("upload", answer.entry.status, answer.entry.error, NoMsg, NoId)
    /\ UNCHANGED <<SessionOthers, now, pipeFile, metaFile, nruns>>

\* POST /train/ at clock reading t, _save_model included
SessionTrain(req, t) ==
    /\ nruns < MaxRuns
    /\ t >= now
    /\ now' = t
    /\ nruns' = nruns + 1
    /\ LET h == TrainHandler(StoredFiles(upload_dir), req, t)
       IN  IF h.ok
           THEN /\ pipeFile' = Put(pipeFile, h.result.model_id, h.result.pipeline)
                /\ metaFile' = Put(metaFile, h.result.model_id, h.result.metadata)
                /\ resp' = TrainOk(h.result.model_id, req.test_size)
           ELSE /\ resp' = h.resp
                /\ UNCHANGED <<pipeFile, metaFile>>
    /\ UNCHANGED <<SessionOthers, upload_dir, upload_log>>

\* DELETE /upload/session/{session_id}: the record of the upload is looked
\* up, the file and the record are removed
CleanupUploadSession(session_id) ==
    /\ IF get_file_path(upload_dir, session_id) = NoPath
       THEN /\ resp' = HttpError("cleanup", 404, "SESSION_NOT_FOUND", NoMsg)
            /\ UNCHANGED upload_dir
       ELSE /\ upload_dir' = cleanup_file(upload_dir, session_id)
            /\ resp' = Response("cleanup", 200, "", NoMsg, NoId)
    /\ UNCHANGED <<SessionOthers, now, pipeFile, metaFile, nruns, upload_log>>

\* GET /summary/{model_id}
ModelSummaryRequest(model_id) ==
    /\ resp' = ModelSummaryHandler(pipeFile, metaFile, upload_dir, llm_env, model_id)
    /\ UNCHANGED <<SessionOthers, now, pipeFile, metaFile, nruns, upload_dir, upload_log>>

NextSession ==
    \/ SessionUpload
    \/ \E req \in SessionTrainRequests, t \in 0..MaxClock : SessionTrain(req, t)
    \/ \E session_id \in Sessions : CleanupUploadSession(session_id)
    \/ \E model_id \in ReadIds : ModelSummaryRequest(model_id)

SpecSession == InitSession /\ [][NextSession]_vars

\* ================================================================ claims
InFlight(w) == tr[w].pc # "idle"

\* C1: in every interleaving of training runs with loads of the same model
\* id, a load finds both halves of the artifact or neither: load_model never
\* fails on an id of which one half is stored.
C1_ReaderFindsBothHalvesOrNeither ==
    \A id \in ReadIds :
        \/ load_model(pipeFile, metaFile, id).ok
        \/ id \notin DOMAIN pipeFile \cup DOMAIN metaFile

\* C2: two training runs that execute concurrently for different session
\* tokens are given different model ids.
C2_ConcurrentRunsGetDistinctIds ==
    \A w1, w2 \in Workers :
        (/\ w1 # w2
         /\ InFlight(w1)
         /\ InFlight(w2)
         /\ tr[w1].metadata.session_id # tr[w2].metadata.session_id)
        => tr[w1].model_id # tr[w2].model_id

\* C3: once both halves of an artifact are stored under a model id, no step
\* changes or removes the pipeline or the metadata stored under that id.
C3_PersistedArtifactNeverChanges ==
    [][\A id \in DOMAIN pipeFile \cap DOMAIN metaFile :
          /\ id \in DOMAIN pipeFile' \cap DOMAIN metaFile'
          /\ pipeFile'[id] = pipeFile[id]
          /\ metaFile'[id] = metaFile[id]]_vars

HalfAbsent(id) == id \notin DOMAIN pipeFile \/ id \notin DOMAIN metaFile

IsNotFound(e, id) ==
    /\ ~e.ok
    /\ e.exc = "ValueError"
    /\ ContainsNotFound(e.msg)
    /\ e.msg.id = id
    /\ DOMAIN e = {"ok", "exc", "msg"}

\* C6: load_model, predict and the model-info operations on a model id of
\* which the pipeline half or the metadata half is absent fail with a
\* not-found error that names the id, and hand out neither half: the core
\* calls raise, and the last response, when it answers a request for such an
\* id, is 404 MODEL_NOT_FOUND with the id and no metadata or predictions.
C6_AbsentHalfIsNotFound ==
    /\ \A id \in ReadIds :
          HalfAbsent(id) =>
             /\ IsNotFound(load_model(pipeFile, metaFile, id), id)
             /\ IsNotFound(get_model_summary(pipeFile, metaFile, id), id)
             /\ \A data \in ReadBatches :
                   IsNotFound(predict(pipeFile, metaFile, id, data), id)
    /\ (/\ resp.op \in {"predict", "info", "summary"}
        /\ resp.error # "EMPTY_INPUT_DATA"
        /\ HalfAbsent(resp.model_id))
       => /\ resp.status = 404
          /\ resp.error = "MODEL_NOT_FOUND"
          /\ resp.message.id = resp.model_id
          /\ resp.metadata = NoMetadata
          /\ resp.predictions = <<>>

\* A prediction was asked of a model whose pipeline is stored and whose
\* metadata is not, and was answered 404
C6_Witness ==
    /\ resp.op = "predict"
    /\ resp.status = 404
    /\ resp.model_id \in DOMAIN pipeFile
    /\ resp.model_id \notin DOMAIN metaFile

InRange(test_size) == test_size >= MinTestSize /\ test_size <= MaxTestSize

\* C7: a training request for a stored dataset whose test_size lies outside
\* [0.1, 0.5] is answered 400 INVALID_TEST_SIZE, and nothing is written for
\* it: no run with such a test_size is between the fit and the two writes, no
\* stored pipeline was fitted with one, and no 200 response reports one.
C7_OutOfRangeTestSizeRejected ==
    /\ \A req \in TrainRequests :
          (req.session_id \in DOMAIN uploads /\ ~InRange(req.test_size))
          => LET h == TrainHandler(uploads, req, now)
             IN  /\ ~h.ok
                 /\ h.resp.status = 400
                 /\ h.resp.error = "INVALID_TEST_SIZE"
    /\ \A w \in Workers : InFlight(w) => InRange(tr[w].test_size)
    /\ \A id \in DOMAIN pipeFile : InRange(pipeFile[id].fitted_on.test_size)
    /\ (resp.op = "train" /\ resp.status = 200) => InRange(resp.test_size)

\* A request with test_size 0.51 was rejected while an artifact was stored
C7_Witness ==
    /\ resp.op = "train"
    /\ resp.error = "INVALID_TEST_SIZE"
    /\ resp.test_size > MaxTestSize
    /\ DOMAIN pipeFile # {}
    /\ DOMAIN metaFile # {}

ValidationErrors ==
    {"INVALID_TEST_SIZE", "UNSUPPORTED_ALGORITHM", "INVALID_MODEL_TYPE",
     "TRAINING_VALIDATION_ERROR"}

\* The request fails one of the checks the contract calls validation
IsValidationCause(req) ==
    \/ req.target_column \notin Range(uploads[req.session_id].columns)
    \/ ~InRange(req.test_size)
    \/ req.algorithm \notin ApiAlgorithms
    \/ req.model_type \notin ApiModelTypes

\* C8: a training request for a stored dataset that names a missing target
\* column, an out-of-range test_size or an unsupported algorithm or problem
\* type is answered with a validation error; a request that passes these
\* checks and fails in the fit is answered with an error that is not a
\* validation error and carries the message of the exception.
C8_TrainingFailureIsDistinct ==
    \A req \in TrainRequests :
        req.session_id \in DOMAIN uploads =>
            LET h == TrainHandler(uploads, req, now)
            IN  IF IsValidationCause(req)
                THEN ~h.ok /\ h.resp.error \in ValidationErrors
                ELSE h.ok \/ (/\ h.resp.error \notin ValidationErrors
                              /\ h.resp.message.text # "")

\* predict was called for the current batch on a stored model
Predicted == out.model_id \in DOMAIN pipeFile \cap DOMAIN metaFile

\* The persisted features that some row of the batch does not supply
AbsentFeatures(data, feats) ==
    UNION {Range(feats) \ Keys(data[i]) : i \in 1..Len(data)}

\* C5: when some row of the batch lacks a feature of the persisted
\* feature-name list, predict fails with the missing-features error that
\* lists exactly the absent names, also when another row supplies the
\* feature, and returns no prediction.
C5_MissingFeaturesReported ==
    Predicted =>
        LET absent == AbsentFeatures(batch, metaFile[out.model_id].feature_names)
        IN  absent # {} =>
                /\ ~out.a.ok
                /\ out.a.msg.text = "Missing required features: {names}"
                /\ out.a.msg.names = absent

\* The two batches give every persisted feature the same value, row by row
AgreeOnFeatures(d1, d2, feats) ==
    /\ Len(d1) = Len(d2)
    /\ \A i \in 1..Len(d1) : \A f \in Range(feats) :
          /\ f \in Keys(d1[i]) <=> f \in Keys(d2[i])
          /\ Cell(d1[i], f) = Cell(d2[i], f)

\* C9: two batches that agree row by row on the value of every persisted
\* feature and differ only in key order or in extra fields get the same
\* result from predict: the same predictions, confidences and probabilities,
\* or the same error.
C9_OutputDependsOnFeatureValuesOnly ==
    (/\ Predicted
     /\ AgreeOnFeatures(batch, variant, metaFile[out.model_id].feature_names))
    => out.a = out.b

\* Predictions were returned for a batch whose variant reverses the keys of
\* the first row and adds a field to the second
C9_Witness ==
    /\ Predicted
    /\ out.a.ok
    /\ Len(batch) >= 2
    /\ variant[1] = Reverse(batch[1])
    /\ variant[1] # batch[1]
    /\ ExtraField \in Range(variant[2])

\* C10: every result of predict has a confidence in [0, 1]; for
\* classification it is the largest class probability when the estimator has
\* predict_proba and 0.5 otherwise; for regression it lies in [0.1, 0.9], is
\* the same for every row, and is 0.8 when all predictions of the batch are
\* equal.
C10_ConfidenceRanges ==
    (Predicted /\ out.a.ok) =>
        LET res == out.a.predictions
            problem_type == metaFile[out.model_id].problem_type
        IN  \A i \in 1..Len(res) :
                /\ res[i].confidence >= 0
                /\ res[i].confidence <= ConfScale
                /\ problem_type = "classification" =>
                      IF HasPredictProba(pipeFile[out.model_id])
                      THEN res[i].confidence = MaxSeq(res[i].probabilities)
                      ELSE res[i].confidence = NeutralConf
                /\ problem_type = "regression" =>
                      /\ res[i].confidence >= MinConf
                      /\ res[i].confidence <= MaxConf
                      /\ res[i].confidence = res[1].confidence
                      /\ (\A j \in 1..Len(res) : res[j].prediction = res[1].prediction)
                         => res[i].confidence = DefaultRegressionConf

\* What the call would have returned on an instance no other call has used
AloneInfo(d, config) == create_preprocessing_pipeline(<<>>, d, config).info

\* C4: calls share no mutable state, so the result of a plan-building call is
\* the result the same call gives when it runs alone.
C4_PlanIsAsIfAlone ==
    planOut.called => planOut = AloneInfo(planOut.data, planOut.config_used)

\* The detection rule of the contract: classification for a non-numeric
\* target, a numeric one with at most 10 distinct values or a numeric one
\* with unique ratio below 0.05; regression otherwise
ContractType(y) ==
    IF ~y.numeric \/ y.nunique <= 10 \/ y.nunique * 100 < 5 * y.nonnull
    THEN "classification"
    ELSE "regression"

KindInOrder(col, looks_like_dates) ==
    LET values == dropna(col.cells)
    IN  IF \/ col.dtype = "bool"
           \/ \A i \in 1..Len(values) : AsStr(col.dtype, values[i]) \in boolean_values
        THEN "boolean"
        ELSE IF is_numeric_dtype(col.dtype) \/ to_numeric_ok(values)
        THEN "numerical"
        ELSE IF is_datetime64_any_dtype(col.dtype) \/ looks_like_dates
        THEN "datetime"
        ELSE "categorical"

HasSeparator(text) == \E i \in 1..Len(text) : text[i] \in SeparatorChars

DateSample(col) == Take(dropna(col.cells), DatetimeSampleSize)

C13_CorrelationMapPairs ==
    (profile.called /\ profile.result.ok) =>
        LET correlations == profile.result.correlations
            nums == select_number_columns(dataset)
            N == 1..Len(nums)
        IN  /\ \A key \in DOMAIN correlations :
                   \E i, j \in N :
                       /\ nums[i].name # nums[j].name
                       /\ key = CorrKey(nums[i].name, nums[j].name)
                       /\ ~corr(nums[i], nums[j]).nan
                       /\ AbsAbove(corr(nums[i], nums[j]), 3, 10)
            /\ \A i \in N : CorrKey(nums[i].name, nums[i].name) \notin DOMAIN correlations
            /\ \A i, j \in N :
                   i # j => ~(/\ CorrKey(nums[i].name, nums[j].name) \in DOMAIN correlations
                              /\ CorrKey(nums[j].name, nums[i].name) \in DOMAIN correlations)

\* Three numeric columns have been profiled: one pair is reported with a
\* negative correlation, one with a positive one, and one pair with a weak
\* correlation (0 < |r| <= 0.3) is left out
C13_Witness ==
    /\ profile.called
    /\ profile.result.ok
    /\ Len(select_number_columns(dataset)) = 3
    /\ \E k \in DOMAIN profile.result.correlations : profile.result.correlations[k] < 0
    /\ \E k \in DOMAIN profile.result.correlations : profile.result.correlations[k] > 0
    /\ LET r == corr(dataset[1], dataset[2])
       IN  /\ ~r.nan
           /\ r.sxy # 0
           /\ ~AbsAbove(r, 3, 10)
           /\ CorrKey(ColA, ColB) \notin DOMAIN profile.result.correlations

\* C14: for every dataset the completeness reported by assess_data_quality
\* lies in [0, 1] and equals 1.0 if and only if the dataset has zero missing
\* cells.
C14_CompleteIffNoMissingCell ==
    quality.called =>
        /\ quality.result.completeness \in 0..1000
        /\ (quality.result.completeness = 1000) <=> (quality.result.missing_cells = 0)

\* C14, amended: the completeness lies in [0, 1] and equals 1.0 if and only
\* if the dataset has at least one cell and at most one in 2000 of its cells
\* is missing, which is when the ratio of present cells rounds to 1.000.
C14_CompleteIffFewMissingCells ==
    quality.called =>
        /\ quality.result.completeness \in 0..1000
        /\ (quality.result.completeness = 1000) <=>
               (/\ quality.result.total_cells > 0
                /\ 2000 * quality.result.missing_cells <= quality.result.total_cells)

\* A frame with a missing cell has been assessed as complete
C14_Witness ==
    /\ quality.called
    /\ quality.result.missing_cells > 0
    /\ quality.result.total_cells >= ManyRows
    /\ quality.result.completeness = 1000

\* C15: when the type-specific statistics of one column fail during
\* profiling, generate_comprehensive_profile still returns a profile in
\* which that column carries its minimal stats and every other column is
\* fully profiled.
C15_ColumnFailureStaysLocal ==
    LET Fails(c) == TypeStatsRaise(dataset[c], infer_column_type(dataset[c]))
    IN  (profile.called /\ \E c \in 1..Len(dataset) : Fails(c)) =>
            /\ profile.result.ok
            /\ \A c \in 1..Len(dataset) :
                   LET full == ColumnProfile(dataset[c], "zero")
                       got == profile.result.column_profiles[c]
                   IN  IF Fails(c)
                       THEN /\ got.type = full.type
                            /\ got.count = full.count
                            /\ got.null_count = full.null_count
                            /\ got.numerical = NoNumerical
                       ELSE /\ got.type = full.type
                            /\ got.count = full.count
                            /\ got.numerical.mean = full.numerical.mean
                            /\ got.categorical = full.categorical

\* C16: every numeric statistic of the profile returned by
\* generate_comprehensive_profile (mean, std, min, max, quartiles, skewness)
\* is a finite number or null, never not-a-number, for any column including
\* one with a single non-null value.
C16_NoNaNStatistic ==
    (profile.called /\ profile.result.ok) =>
        \A c \in 1..Len(dataset) :
            LET stats == profile.result.column_profiles[c].numerical
                NumberOrNull(v) == v.kind \in {"finite", "null"}
            IN  /\ NumberOrNull(stats.mean)
                /\ NumberOrNull(stats.std)
                /\ NumberOrNull(stats.min)
                /\ NumberOrNull(stats.max)
                /\ \A k \in 1..Len(stats.quartiles) : NumberOrNull(stats.quartiles[k])
                /\ NumberOrNull(stats.skewness)

\* C17: validate_csv_structure returns is_valid = false with a non-empty
\* issue list for a malformed or empty file, and after an upload request is
\* rejected for that reason or fails at any later upload step, no stored
\* file remains for the session id generated for that request, so
\* get_file_path for it returns none.
C17_RejectedUploadLeavesNoFile ==
    /\ \A file \in CsvFiles :
           LET validation_result == validate_csv_structure(file)
           IN  (ReadCsvRaises(file) \/ Len(file.widths) = 0) =>
                   /\ ~validation_result.is_valid
                   /\ validation_result.issues # <<>>
    /\ \A r \in 1..Len(upload_log) :
           upload_log[r].error \in {"INVALID_CSV_STRUCTURE", "UPLOAD_PROCESSING_ERROR"} =>
               /\ \A n \in upload_dir :
                      SubSeq(n, 1, Len(upload_log[r].session_id)) # upload_log[r].session_id
               /\ get_file_path(upload_dir, upload_log[r].session_id) = NoPath

\* C18: a column whose name is identifier-like (contains id, key, uuid,
\* timestamp or another word of the identifier vocabulary) is assessed with
\* is_suitable = false and suitability score 0 and never appears among the
\* recommended targets, whatever its keyword matches and data.
C18_IdentifierNeverRecommended ==
    analysis.called =>
        \A c \in 1..Len(table.columns) :
            AnyKeywordIn(suspicious_features, lower(table.columns[c].name)) =>
                LET assessed == assess_target_suitability(table.rows, table.columns[c])
                    targets == analysis.target_recommendations.recommended_targets
                IN  /\ ~assessed.is_suitable
                    /\ assessed.suitability_score = 0
                    /\ \A k \in 1..Len(targets) :
                           targets[k].column_name # table.columns[c].name

\* C19: in every target-recommendation result has_clear_target is true if
\* and only if at least one target is recommended and the highest
\* suitability score among the recommended targets is above 70.
C19_ClearTargetIffTopScoreAbove70 ==
    analysis.called =>
        LET targets == analysis.target_recommendations.recommended_targets
        IN  analysis.target_recommendations.has_clear_target <=>
                /\ targets # <<>>
                /\ \E k \in 1..Len(targets) :
                       /\ targets[k].suitability_score > ClearTargetScore
                       /\ \A j \in 1..Len(targets) :
                              targets[j].suitability_score <= targets[k].suitability_score

\* C20: whenever the text-generation request fails, times out, returns an
\* unexpected shape, or no API key is configured, generate_dataset_summary,
\* generate_model_summary and generate_insights_and_recommendations return
\* the template built from the structured fields they were given: the call
\* does not raise and the summary is not empty.
C20_FallbackTemplateOnFailure ==
    (/\ llm_out.called
     /\ \/ ~llm_env.api_key
        \/ llm_env.response \in {"timeout", "http_error", "not_json", "no_choices",
                                 "no_message", "blank_content"}) =>
        /\ llm_out.result.ok
        /\ llm_out.result.value # <<>>
        /\ llm_out.result.value =
               IF llm_out.function = "generate_dataset_summary"
               THEN generate_fallback_dataset_summary(DataSummary(llm_out.dataset_analysis))
               ELSE IF llm_out.function = "generate_model_summary"
               THEN generate_fallback_model_summary(
                        ModelInfo(llm_out.metadata, llm_out.dataset_analysis),
                        MetricsText(llm_out.metadata.problem_type,
                                    llm_out.evaluation_metrics))
               ELSE generate_fallback_insights(
                        InsightsContext(llm_out.dataset_analysis, llm_out.metadata))

\* C21: in every training call the preprocessing plan is fitted on the
\* training partition of that call only: whatever is given to a fit is
\* X_train of the call, the held-out partition is only given to transform
\* and predict, and the plan inside every saved pipeline was fitted, each
\* time it was fitted, on the training partition of the call that saved it.
C21_PlanFittedOnTrainingPartitionOnly ==
    /\ \A i \in 1..Len(training.calls) :
          LET c == training.calls[i]
          IN  /\ c.method \in {"fit", "fit_transform"} =>
                     c.data = Part(training.call, "train")
              /\ c.data # Part(training.call, "train") =>
                     /\ c.data = Part(training.call, "test")
                     /\ c.method \in {"transform", "predict"}
    /\ \A n \in DOMAIN models_dir :
          LET fits == models_dir[n].preprocessor.fits
          IN  /\ fits # <<>>
              /\ \A i \in 1..Len(fits) : fits[i] = Part(n, "train")

\* A second call has saved its pipeline after the held-out partition went
\* through transform and predict
C21_Witness ==
    /\ training.pc = "done"
    /\ training.call = 2
    /\ 2 \in DOMAIN models_dir
    /\ \E i \in 1..Len(training.calls) :
          training.calls[i] = Call("model", "predict", Part(2, "test"))

\* C26: a train_model call given pre-split, pre-processed partitions (the
\* call train_model_enhanced makes) completes like the file-path call: once
\* the partitions were handed over it fails only for what fails a file-path
\* call too, an invalid problem type, an unsupported algorithm or an
\* estimator that cannot be fitted on the target.
C26_PreprocessedCallCompletes ==
    ( /\ training.entry = "train_model_enhanced"
      /\ training.pc = "failed"
      /\ training.calls # <<>>
      /\ training.calls[Len(training.calls)].method = "transform" ) =>
        /\ training.cause = "ValueError"
        /\ training.msg.text \in {"Invalid problem type: {names}",
                                  "Unsupported algorithm: {names}",
                                  "could not convert string to float: 'no'"}

\* C22: the list _recommend_target_columns returns holds only columns
\* assessed as suitable, in order of non-increasing score, of equal scores
\* the column that comes earlier in the frame first, and it is the first
\* five of that ranking: no suitable column left out ranks before the last
\* one listed.
C22_RankedTargets ==
    ( /\ analysis.called
      /\ analysis.endpoint = "target-recommendations" ) =>
        LET targets == analysis.target_recommendations.recommended_targets
            Position(name) == CHOOSE c \in 1..Len(table.columns) : table.columns[c].name = name
            Score(c) == assess_target_suitability(table.rows, table.columns[c]).suitability_score
            Suitable ==
                {c \in 1..Len(table.columns) :
                    assess_target_suitability(table.rows, table.columns[c]).is_suitable}
            Listed == {Position(targets[k].column_name) : k \in 1..Len(targets)}
            Before(c, d) == Score(c) > Score(d) \/ (Score(c) = Score(d) /\ c < d)
        IN  /\ Listed \subseteq Suitable
            /\ \A k \in 1..Len(targets) :
                   targets[k].suitability_score = Score(Position(targets[k].column_name))
            /\ \A k \in 1..(Len(targets) - 1) :
                   Before(Position(targets[k].column_name),
                          Position(targets[k + 1].column_name))
            /\ Len(targets) = Min2(TopTargets, Cardinality(Suitable))
            /\ \A c \in Suitable \ Listed, d \in Listed : Before(d, c)

\* Six suitable columns of which the second and the fifth have the highest
\* score: both are listed, the second first, and one column is cut
C22_Witness ==
    /\ analysis.called
    /\ analysis.endpoint = "target-recommendations"
    /\ analysis.target_recommendations.total_candidates = 6
    /\ Len(analysis.target_recommendations.recommended_targets) = TopTargets
    /\ analysis.target_recommendations.recommended_targets[1].column_name = WideNames[2]
    /\ analysis.target_recommendations.recommended_targets[2].column_name = WideNames[5]
    /\ analysis.target_recommendations.recommended_targets[1].suitability_score =
           analysis.target_recommendations.recommended_targets[2].suitability_score

\* C23: without an explicit encoding the plan's categorical encoding is
\* frequency encoding when a categorical column has more distinct values
\* than the max-cardinality threshold, else one-hot when the largest
\* cardinality is at most 10, else target encoding; an explicit encoding is
\* used as given.  The step recorded and the encoder built are those of the
\* method chosen.
C23_EncodingByCardinality ==
    planOut.called =>
        LET cards == {planOut.cols[c].cardinality : c \in 1..Len(planOut.cols)}
            largest == CHOOSE m \in cards : \A c \in cards : c <= m
            config == planOut.config_used
            expected ==
                IF config.categorical_encoding # "auto" THEN config.categorical_encoding
                ELSE IF largest > config.max_categorical_cardinality THEN "frequency"
                ELSE IF largest <= 10 THEN "onehot"
                ELSE "target"
        IN  /\ planOut.encoding_method = expected
            /\ preprocessing_steps[Len(preprocessing_steps)] =
                   <<"Categorical encoding", expected>>
            /\ planOut.encoder =
                   [onehot |-> "OneHotEncoder", target |-> "TargetEncoder",
                    frequency |-> "FrequencyEncoder"][expected]

\* Two columns of 10 and 5 distinct values under the default configuration:
\* one-hot at the boundary
C23_Witness ==
    /\ planOut.called
    /\ planOut.config_used = DefaultConfig
    /\ Len(planOut.cols) = 2
    /\ planOut.cols[1].cardinality = 10
    /\ planOut.cols[2].cardinality = 5
    /\ planOut.encoding_method = "onehot"

\* C24: recommend_models returns at most 5 recommendations, in order of
\* non-increasing score, each score within 0..100, and every algorithm
\* returned is one of the candidates registered for the requested problem
\* type.
C24_TopFiveModels ==
    recommended.called =>
        LET models == recommended.models
            Names(registry) == {registry[k].model_name : k \in 1..Len(registry)}
        IN  /\ Len(models) <= 5
            /\ \A k \in 1..Len(models) : models[k].score \in 0..100
            /\ \A k \in 1..(Len(models) - 1) : models[k].score >= models[k + 1].score
            /\ \A k, l \in 1..Len(models) :
                   models[k].model_name = models[l].model_name => k = l
            /\ selection.problem_type = "classification" =>
                   \A k \in 1..Len(models) :
                       models[k].model_name \in Names(classification_models)
            /\ selection.problem_type = "regression" =>
                   \A k \in 1..Len(models) :
                       models[k].model_name \in Names(regression_models)

\* A large classification dataset with many missing values: xgboost comes
\* first and two of the seven candidates are cut
C24_Witness ==
    /\ recommended.called
    /\ selection.problem_type = "classification"
    /\ selection.dataset_characteristics.dataset_size = 10000
    /\ Len(recommended.models) = 5
    /\ recommended.models[1].model_name = "xgboost"
    /\ recommended.models[1].score > recommended.models[5].score

\* C25: transform of a fitted plan changes no fitted parameter (outlier
\* bounds, frequency maps) and does not change the array it is given, so
\* every application of the fitted plan to the same held-out partition
\* returns what the first one returned.
C25_TransformLeavesPlanAndInput ==
    \A k \in 1..Len(transformed) :
        /\ fitted = transformed[k].before
        /\ partition = transformed[k].given
        /\ transformed[k].numeric = transformed[1].numeric
        /\ transformed[k].categorical = transformed[1].categorical

\* The plan was applied twice to a partition with a value above the upper
\* bound and a label not seen in training: the value was clipped, the label
\* encoded as 0
C25_Witness ==
    /\ Len(transformed) = 2
    /\ fitted.outlier.method = "iqr"
    /\ \E r \in 1..Len(partition.numeric[1]) :
          /\ partition.numeric[1][r] = 400
          /\ transformed[2].numeric[1][r] < 400
    /\ \E r \in 1..Len(partition.categorical[1]) :
          /\ partition.categorical[1][r] = "z"
          /\ transformed[2].categorical[1][r] = 0

\* C27: DataProcessor.infer_problem_type and MLProcessor.detect_problem_type
\* return the same problem type for every target column, a target with no
\* non-null value included.
C27_DetectorsAgree ==
    detected.called => detected.inferred = detected.detected

\* The pairs of numeric columns calculate_correlations is to report: i < j
\* with a correlation r that is a number and has |r| > 0.3
QualifyingPairs(nums) ==
    {p \in (1..Len(nums)) \X (1..Len(nums)) :
        /\ p[1] < p[2]
        /\ ~corr(nums[p[1]], nums[p[2]]).nan
        /\ AbsAbove(corr(nums[p[1]], nums[p[2]]), 3, 10)}

\* C28: calculate_correlations reports every pair of numeric columns with
\* |r| > 0.3 under a key of its own: no two different pairs have the same
\* key, the map has as many entries as there are qualifying pairs, and the
\* entry of every qualifying pair holds that pair's rounded correlation.
C28_EveryPairUnderItsOwnKey ==
    corr_result.called =>
        LET nums == select_number_columns(corr_frame)
            Q == QualifyingPairs(nums)
            KeyOf(p) == CorrKey(nums[p[1]].name, nums[p[2]].name)
        IN  /\ \A p, q \in Q : p # q => KeyOf(p) # KeyOf(q)
            /\ Cardinality(DOMAIN corr_result.correlations) = Cardinality(Q)
            /\ \A p \in Q :
                   /\ KeyOf(p) \in DOMAIN corr_result.correlations
                   /\ corr_result.correlations[KeyOf(p)]
                          = RoundMilli(corr(nums[p[1]], nums[p[2]]))

\* C29: after upload, train and cleanup of the upload session, the summary
\* of the trained model is still returned, without the dataset part:
\* GET /summary/{model_id} of a stored model whose session has no file in
\* the upload directory answers 200 with a dataset summary not enhanced by
\* a profile.
C29_SummarySurvivesCleanup ==
    (/\ resp.op = "model_summary"
     /\ resp.model_id \in DOMAIN pipeFile \cap DOMAIN metaFile
     /\ get_file_path(upload_dir, metaFile[resp.model_id].session_id) = NoPath)
        => /\ resp.status = 200
           /\ ~resp.dataset_summary.enhanced

\* The column of the frame a recommendation names
ColumnNamed(df, column_name) ==
    CHOOSE col \in Range(df.columns) : col.name = column_name

\* y = df[target_column] as infer_problem_type reads it: the dtype, the
\* distinct values and the values left by dropna(); the size of the
\* smallest class is not read
TargetOf(df, col) ==
    [numeric |-> is_numeric_dtype(col.dtype), nunique |-> col.nunique,
     nonnull |-> df.rows - col.missing, minclass |-> 1]

\* any(keyword in col_name_lower for keyword in keywords), for either list
HasTargetKeyword(column_name) ==
    \/ AnyKeywordIn(target_keywords_classification, lower(column_name))
    \/ AnyKeywordIn(target_keywords_regression, lower(column_name))

\* A numeric column of 3 to 10 distinct values with a unique ratio above 0.9
FewAllDistinct(df, col) ==
    /\ is_numeric_dtype(col.dtype)
    /\ col.nunique > 2
    /\ col.nunique <= 10
    /\ 10 * col.nunique > 9 * df.rows

====
